---- MODULE Spec2Model ----
(***************************************************************************)
(* The runner / queue control plane of the janitor (janitor/runner.py):    *)
(* the durable queue and run tables, the in-memory active-run registry,    *)
(* the HTTP handlers as cooperative tasks of one event loop (one action    *)
(* per stretch of code between two suspension points), the watchdog tasks  *)
(* and a discrete clock.                                                   *)
(***************************************************************************)
EXTENDS Integers, Sequences, FiniteSets, TLC

\* ------------------------------------------------------------------ bounds
\* Rows of the queue table when the runner starts.
NumItems == 2
\* ActiveRun objects (fresh uuid4 log ids) created in one behaviour.
MaxRuns == 2
\* Request handlers in flight at the same time.
MaxHandlers == 2
\* Clock steps of KEEPALIVE_INTERVAL seconds in one behaviour.
MaxTicks == 3
\* Queue rows the follow-up scheduler may add in one behaviour.
MaxControl == 1
\* Rows the runner adds to the run table.
MaxRunRows == 2
\* Rows on the alioth host at the head of the queue of InitBackoff (or one
\* fewer).
NumAliothRows == 4
\* Clock steps of BackoffStep seconds in one behaviour of SpecBackoff.
MaxElapse == 3
\* Seconds of one clock step of SpecBackoff.
BackoffStep == 60
\* The rows of InitNoVcs: InitialRow(3) is the one without branch_url.
NumNoVcsRows == 3
\* Calls of finish_run that leave the registry as it is (a failed
\* transaction; with dry_run, a run that is finished again) are followed
\* while the gauge active_runs is less than this below the size of the
\* registry.
MaxDrift == 1
\* Chunks in the body of one log upload.
MaxChunks == 2
\* Chunks one log buffer holds.
MaxLogLen == 2
\* publish_from_policy calls in flight at the same time.
MaxPublishers == 2
\* publish_from_policy calls that get past the already_published check in one
\* behaviour.
MaxPublishCalls == 3
\* The largest --max-mps-per-maintainer.
MaxCap == 2
\* The largest number of open or merged proposals of the maintainer.
MaxCount == 3
\* Merge proposals iter_all_mps finds at the hosters.
MaxProposals == 2
\* check_existing passes of process_queue_loop in one behaviour.
MaxPasses == 2

\* ------------------------------------------------------- program constants
KEEPALIVE_INTERVAL == 600
DEFAULT_RETRY_AFTER == 120
\* next_queue_item scans len(active_runs) + 3 rows.
ScanSlack == 3

VARIABLES
    queue,            \* the queue table: a set of rows
    runs,             \* the run table: rows in insertion order
    runobj,           \* every ActiveRun object created so far, by log id
    active_runs,      \* QueueProcessor.active_runs: the registered log ids
    active_run_count, \* the gauge active_runs of the metrics
    tasks,            \* the request handlers in flight, by slot
    now,              \* datetime.utcnow(), in seconds
    rate_limit_hosts, \* QueueProcessor.rate_limit_hosts
    next_queue_id,    \* the queue table's id sequence
    topic_result,     \* events published on the result topic
    response,         \* the HTTP response the last step sent, if any
    dry_run,          \* QueueProcessor.dry_run
    publish,          \* the publish table: rows in insertion order
    rate_limiter,     \* the publisher's rate limiter object
    proposal_rate_limited, \* the counter proposal_rate_limited
    ptasks,           \* the publish_from_policy calls in flight, by slot
    preturn,          \* the publish_from_policy call that has just returned
    policy,           \* the publish mode and main branch URL of the package
    proposals,        \* the merge proposals at the hosters, with what the
                      \* database knows of each
    topic_merge_proposal, \* events published on the merge-proposal topic
    reconciler        \* the check_existing pass of process_queue_loop

\* The state of the publisher (janitor/publish.py).
pubvars == <<publish, rate_limiter, proposal_rate_limited, ptasks, preturn, policy,
            proposals, topic_merge_proposal, reconciler>>

\* The state of the reconciler (check_existing).
reconcilevars == <<proposals, topic_merge_proposal, reconciler>>

\* The state of the runner (janitor/runner.py).
runnervars == <<queue, runs, runobj, active_runs, active_run_count, tasks, now, rate_limit_hosts,
                next_queue_id, topic_result, response, dry_run>>

vars == <<queue, runs, runobj, active_runs, active_run_count, tasks, now, rate_limit_hosts,
          next_queue_id, topic_result, response, dry_run, publish, rate_limiter,
          proposal_rate_limited, ptasks, preturn, policy, proposals,
          topic_merge_proposal, reconciler>>

\* ------------------------------------------------------------- data values
NoUrl == "None"
NoRev == "None"
Hosts == {"salsa.debian.org", "anonscm.debian.org"}
Handlers == 1..MaxHandlers
\* A run id no ActiveRun was ever created with (uuid4 ids cannot be guessed
\* before they exist).
UnknownRunId == 0

NoItem == [cls |-> "NoneType", id |-> 0, package |-> 0, suite |-> "",
           bucket |-> 0, branch_url |-> NoUrl]

\* The queue rows the schedulers left before the runner started.  Packages
\* are named by number; package 3 has no branch_url in the package table.
InitialRow(i) ==
    [cls |-> "QueueItem", id |-> i, package |-> i, suite |-> "lintian-fixes",
     bucket |-> IF i = 2 THEN 0 ELSE 1,
     branch_url |-> IF i = 3 THEN NoUrl ELSE "salsa.debian.org"]

\* The row do_schedule_control adds for a package.
ControlRow(i, package, branch_url) ==
    [cls |-> "QueueItem", id |-> i, package |-> package, suite |-> "unchanged",
     bucket |-> 1, branch_url |-> branch_url]

\* The multipart part result.json of a /finish request.
NoResult == [present |-> FALSE, code |-> "None", main_branch_revision |-> NoRev,
             revision |-> NoRev, base_none |-> FALSE, queue_id |-> 0]

WorkerResultShapes ==
    { [present |-> TRUE, code |-> "None", main_branch_revision |-> "rev0",
       revision |-> "rev1", base_none |-> FALSE],
      [present |-> TRUE, code |-> "None", main_branch_revision |-> NoRev,
       revision |-> NoRev, base_none |-> FALSE],
      [present |-> TRUE, code |-> "build-failed", main_branch_revision |-> "rev0",
       revision |-> NoRev, base_none |-> FALSE],
      [present |-> TRUE, code |-> "build-failed", main_branch_revision |-> "rev0",
       revision |-> NoRev, base_none |-> TRUE] }

WithQueueId(shape, q) ==
    [present |-> shape.present, code |-> shape.code,
     main_branch_revision |-> shape.main_branch_revision,
     revision |-> shape.revision, base_none |-> shape.base_none, queue_id |-> q]

\* JanitorResult
NoJanitorResult == [log_id |-> 0, code |-> "", main_branch_revision |-> NoRev,
                    revision |-> NoRev, base_none |-> FALSE]

\* branch_error and retry_after: what the main-branch open of /assign raised
\* (the code of a BranchOpenFailure, or "BranchRateLimited") and the
\* retry_after the exception carries (0 for None).
IdleTask == [kind |-> "idle", pc |-> "idle", run_id |-> 0, item |-> NoItem,
             listing |-> <<>>, wr |-> NoResult, found |-> FALSE,
             result |-> NoJanitorResult, ret |-> "", branch_error |-> "",
             retry_after |-> 0]

\* ------------------------------------------------------------------ store
\* state.iter_queue: ORDER BY bucket, priority, id (all modelled rows share
\* one priority offset).
Before(a, b) == a.bucket < b.bucket \/ (a.bucket = b.bucket /\ a.id < b.id)

RECURSIVE SortRows(_)
SortRows(rows) ==
    IF rows = {} THEN <<>>
    ELSE LET first == CHOOSE x \in rows : \A y \in rows \ {x} : Before(x, y)
         IN <<first>> \o SortRows(rows \ {first})

IterQueue(rows, limit) ==
    LET all == SortRows(rows)
    IN SubSeq(all, 1, IF limit < Len(all) THEN limit ELSE Len(all))

\* The queue table has a row with this id.
QueueRowExists(queue_id) == \E row \in queue : row.id = queue_id

\* state.get_queue_item
GetQueueItem(queue_id) ==
    IF QueueRowExists(queue_id)
    THEN CHOOSE row \in queue : row.id = queue_id
    ELSE NoItem


\* The run row store_run inserts.  The statement names no conflict clause and
\* the store keeps no guard on the run id of its own.
RunRow(item, result) ==
    [id |-> result.log_id, package |-> item.package, suite |-> item.suite,
     result_code |-> result.code, revision |-> result.revision]

StoreRun(table, item, result) == Append(table, RunRow(item, result))

\* A run row an earlier runner process stored (ids below 0 stand for the
\* uuids of runs that ended before this process started).
PriorRun(k, package, result_code, revision) ==
    [id |-> 0 - k, package |-> package, suite |-> "unchanged",
     result_code |-> result_code, revision |-> revision]

\* The rows this runner process stored.
IsOwnRun(row) == row.id >= 0
OwnRuns(table) == SelectSeq(table, IsOwnRun)

\* The view last_runs: the latest run of each (package, suite).
LastRunsHasSuccess(package, revision) ==
    \E i \in DOMAIN runs :
        /\ runs[i].package = package
        /\ runs[i].revision = revision
        /\ runs[i].result_code = "success"
        /\ \A j \in DOMAIN runs :
              (runs[j].package = package /\ runs[j].suite = runs[i].suite) => j <= i

\* -------------------------------------------------------------- ActiveRun
\* The methods class ActiveRun defines.
ActiveRunMethods ==
    {"start_watchdog", "stop_watchdog", "reset_keepalive", "append_log",
     "watchdog", "kill", "list_log_files", "get_log_file", "create_result",
     "json"}

\* The attributes finish_run reads from its item argument.
HasAttr(cls, attr) ==
    IF cls = "QueueItem"
    THEN attr \in {"id", "package", "suite", "command", "context", "branch_url"}
    ELSE IF cls = "ActiveRun"
    THEN attr \in ActiveRunMethods \cup
                   {"queue_item", "start_time", "log_id", "worker_name",
                    "log_files", "main_branch_url", "vcs_type",
                    "last_keepalive", "worker_link", "current_duration"}
    ELSE FALSE

\* The log file names workers upload to, and a name not yet in log_files.
LogNames == {"worker.log", "build.log"}
NoLogFile == [present |-> FALSE, data |-> <<>>]

\* ActiveRun.__init__: a fresh log id, last_keepalive now, no watchdog yet
\* (worker_name, start_time and the log buffers decide nothing modelled here).
\* returned records that the 201 assignment naming this run was sent.
NewActiveRun(item) ==
    [cls |-> "ActiveRun", log_id |-> Len(runobj) + 1, queue_item |-> item,
     last_keepalive |-> now, watch_dog |-> "none", wake_at |-> 0,
     returned |-> FALSE, log_files |-> [name \in LogNames |-> NoLogFile]]

\* ActiveRun.append_log: the buffer is created on the first write; the
\* result says whether it was.
AppendLog(run, name, data) ==
    [run |-> [run EXCEPT !.log_files[name] =
                 [present |-> TRUE, data |-> Append(@.data, data)]],
     ret |-> ~run.log_files[name].present]


\* ActiveRun.reset_keepalive
ResetKeepalive(run) == [run EXCEPT !.last_keepalive = now]

\* ActiveRun.start_watchdog: the task's first sleep ends one interval on.
StartWatchdog(run) ==
    [run EXCEPT !.watch_dog = "sleeping", !.wake_at = now + KEEPALIVE_INTERVAL]

\* A stop_watchdog that leaves the task running.
StopWatchdogKeepsTask(run) == run

\* ActiveRun.stop_watchdog: cancels the task and forgets it.
StopWatchdog(run) == [run EXCEPT !.watch_dog = "none", !.wake_at = 0]

\* ActiveRun.create_result
CreateResult(run, code) ==
    [log_id |-> run.log_id, code |-> code, main_branch_revision |-> NoRev,
     revision |-> NoRev, base_none |-> FALSE]

\* JanitorResult.__init__ with a worker result.
JanitorResult(run_id, wr) ==
    [log_id |-> run_id, code |-> IF wr.code = "None" THEN "success" ELSE wr.code,
     main_branch_revision |-> wr.main_branch_revision,
     revision |-> wr.revision, base_none |-> wr.base_none]

\* JanitorResult.json decodes the base revision of every branch; a branch
\* whose base revision is None makes it raise.
JsonRaises(result) == result.base_none

\* --------------------------------------------------------- QueueProcessor
\* An eligibility check that ignores the registry.
IsQueueItemAssignedNever(queue_item_id) == FALSE

\* QueueProcessor.is_queue_item_assigned
IsQueueItemAssigned(queue_item_id) ==
    \E id \in active_runs : runobj[id].queue_item.id = queue_item_id

\* QueueProcessor.is_queue_item_rate_limited: "raise" where the code raises
\* (URL.from_string of None; a deadline stored as a number of seconds compared
\* with datetime.now()).
IsQueueItemRateLimited(url) ==
    IF url = NoUrl THEN "raise"
    ELSE LET until == rate_limit_hosts[url]
         IN IF until.kind = "unset" THEN "no"
            ELSE IF until.kind = "seconds" THEN "raise"
            ELSE IF until.at > now THEN "yes" ELSE "no"

\* QueueProcessor.rate_limited
RateLimited(table, host, retry_after) ==
    [table EXCEPT ![host] =
        IF retry_after # 0
        THEN [kind |-> "seconds", at |-> retry_after]
        ELSE [kind |-> "datetime", at |-> now + DEFAULT_RETRY_AFTER]]

\* A scan that stops at the first row on a host in backoff.
RECURSIVE ScanBlocking(_, _)
ScanBlocking(listing, i) ==
    IF i > Len(listing) THEN [kind |-> "none", item |-> NoItem]
    ELSE IF IsQueueItemAssigned(listing[i].id) THEN ScanBlocking(listing, i + 1)
    ELSE LET limited == IsQueueItemRateLimited(listing[i].branch_url)
         IN IF limited = "raise" THEN [kind |-> "raise", item |-> NoItem]
            ELSE IF limited = "yes" THEN [kind |-> "none", item |-> NoItem]
            ELSE [kind |-> "item", item |-> listing[i]]

NextQueueItemBlocking(listing) == ScanBlocking(listing, 1)

\* The loop of next_queue_item over the rows iter_queue returned.
RECURSIVE ScanFrom(_, _)
ScanFrom(listing, i) ==
    IF i > Len(listing) THEN [kind |-> "none", item |-> NoItem]
    ELSE IF IsQueueItemAssigned(listing[i].id) THEN ScanFrom(listing, i + 1)
    ELSE LET limited == IsQueueItemRateLimited(listing[i].branch_url)
         IN IF limited = "raise" THEN [kind |-> "raise", item |-> NoItem]
            ELSE IF limited = "yes" THEN ScanFrom(listing, i + 1)
            ELSE [kind |-> "item", item |-> listing[i]]

NextQueueItem(listing) == ScanFrom(listing, 1)

\* The rows next_queue_item asks iter_queue for.
ScanLimit == Cardinality(active_runs) + ScanSlack

\* A transaction that stores the run and leaves the queue row.
TransactionKeepsQueueRow(ok, item, result) ==
    IF ok
    THEN [runs |-> StoreRun(runs, item, result), queue |-> queue]
    ELSE [runs |-> runs, queue |-> queue]

\* A transaction that deletes the queue row and loses the run row.
TransactionWithoutRun(ok, item, result) ==
    [runs |-> runs,
     queue |-> IF ok THEN {row \in queue : row.id # item.id} ELSE queue]

\* A delete that survives the rollback.
TransactionDeletesOnRollback(ok, item, result) ==
    [runs |-> IF ok THEN StoreRun(runs, item, result) ELSE runs,
     queue |-> {row \in queue : row.id # item.id}]

\* The database transaction of finish_run: store_run and the queue delete
\* commit together, or an error rolls both back.
Transaction(ok, item, result) ==
    IF ok
    THEN [runs |-> StoreRun(runs, item, result),
          queue |-> {row \in queue : row.id # item.id}]
    ELSE [runs |-> runs, queue |-> queue]

\* ------------------------------------------------------------- responses
NoResponse == [kind |-> "", status |-> 0, run_id |-> 0, queue_id |-> 0,
               found |-> FALSE, branch_error |-> "", retry_after |-> 0]

\* No response is being written: the event loop runs the next callback.
Ready == response = NoResponse

\* What the model keeps of a response: the route, the status, the run id of
\* the URL, the queue id the handler worked on (the one the request named
\* when it found no item), whether the registry knew the run id, what the
\* main-branch open raised, and the Retry-After header of a 429
\* (e.retry_after or DEFAULT_RETRY_AFTER; 0 without the header).
ResponseOf(t, status) ==
    [kind |-> t.kind, status |-> status, run_id |-> t.run_id,
     queue_id |-> IF t.item = NoItem THEN t.wr.queue_id ELSE t.item.id,
     found |-> t.found, branch_error |-> t.branch_error,
     retry_after |-> IF status # 429 THEN 0
                     ELSE IF t.retry_after # 0 THEN t.retry_after
                     ELSE DEFAULT_RETRY_AFTER]

\* The handler returns a response and its task ends.
Respond(h, t, status) ==
    /\ tasks' = [tasks EXCEPT ![h] = IdleTask]
    /\ response' = ResponseOf(t, status)

\* An exception that leaves the handler: aiohttp answers 500.
Raise(h, t) == Respond(h, t, 500)

\* The handler suspends in state t.
Suspend(h, t) ==
    /\ tasks' = [tasks EXCEPT ![h] = t]
    /\ UNCHANGED response

\* The response has gone out.
Deliver ==
    /\ ~Ready
    /\ response' = NoResponse
    /\ UNCHANGED <<queue, runs, runobj, active_runs, active_run_count, tasks, now,
                   rate_limit_hosts, next_queue_id, topic_result, dry_run>>
    /\ UNCHANGED pubvars

\* Handler slots are interchangeable: a request takes the lowest idle one.
LowestIdle(h) ==
    /\ tasks[h].kind = "idle"
    /\ \A g \in Handlers : g < h => tasks[g].kind # "idle"

\* The run ids a client can name: those an assignment has told a worker
\* (uuid4 ids cannot be guessed before that).
KnownRunIds == {id \in DOMAIN runobj : runobj[id].returned}

\* ------------------------------------------------------------- finish_run
\* finish_run returns to the handler that awaited it: /finish answers 201,
\* the abort of an item without branch_url starts the loop of handle_assign
\* over (the next listing is fetched), the rate-limit abort answers 429.
\* rows and registry are the queue table and the registry as finish_run
\* left them.
FinishRunReturn(h, t, rows, registry) ==
    CASE t.ret = "finish" -> Respond(h, t, 201)
      [] t.ret = "assign-loop" ->
            Suspend(h, [IdleTask EXCEPT !.kind = "assign", !.pc = "a_scan",
                           !.listing = IterQueue(rows, Cardinality(registry) + ScanSlack)])
      [] t.ret = "assign-429" -> Respond(h, t, 429)

\* finish_run after the transaction: publish the result event, drop the
\* registry entry, republish the queue status and enter followup_run, which
\* suspends (database.acquire) only for a success of a non-control suite.
FinishRunPost(h, t, rows) ==
    IF JsonRaises(t.result)
    THEN /\ Raise(h, t)
         /\ UNCHANGED <<active_runs, topic_result>>
    ELSE /\ topic_result' = topic_result \cup
                {[log_id |-> t.result.log_id, code |-> t.result.code]}
         /\ active_runs' = active_runs \ {t.result.log_id}
         /\ IF t.result.code = "success" /\ t.item.suite \notin {"unchanged", "debianize"}
            THEN Suspend(h, [t EXCEPT !.pc = "fr_followup"])
            ELSE FinishRunReturn(h, t, rows, active_runs \ {t.result.log_id})

\* QueueProcessor.finish_run up to followup_run.  The gauge active_runs is
\* decremented on entry, then the metrics read
\* item.package and item.suite.  Without dry_run the transaction commits and
\* finish_run goes on to the publish, or it fails, is rolled back, and the
\* exception leaves the handler.  (Between the entry and the transaction only
\* metrics change, so the stretch is one step.)
FinishRun(h) ==
    /\ Ready
    /\ tasks[h].pc = "fr_call"
    /\ \E ok \in BOOLEAN :
          LET t == tasks[h]
              db == IF dry_run THEN [runs |-> runs, queue |-> queue]
                    ELSE Transaction(ok, t.item, t.result)
          IN /\ dry_run => ok
             /\ (~dry_run /\ ok) => Len(OwnRuns(runs)) < MaxRunRows
             /\ (~ok \/ (dry_run /\ (JsonRaises(t.result) \/ t.result.log_id \notin active_runs)))
                   => Cardinality(active_runs) - active_run_count < MaxDrift
             /\ IF ~(HasAttr(t.item.cls, "package") /\ HasAttr(t.item.cls, "suite"))
                THEN /\ Raise(h, t)
                     /\ UNCHANGED <<runs, queue, active_runs, topic_result>>
                ELSE /\ runs' = db.runs
                     /\ queue' = db.queue
                     /\ IF ok
                        THEN FinishRunPost(h, t, db.queue)
                        ELSE /\ Raise(h, t)
                             /\ UNCHANGED <<active_runs, topic_result>>
    /\ active_run_count' = active_run_count - 1
    /\ UNCHANGED <<runobj, now, rate_limit_hosts, next_queue_id, dry_run>>
    /\ UNCHANGED pubvars

\* followup_run for a success of a non-control suite: the query decodes
\* result.main_branch_revision, then schedules a control run unless the
\* package already has a successful last run at that revision.
FollowupRun(h) ==
    /\ Ready
    /\ tasks[h].pc = "fr_followup"
    /\ LET t == tasks[h]
           control == ControlRow(next_queue_id, t.item.package, t.item.branch_url)
       IN IF t.result.main_branch_revision = NoRev
          THEN /\ Raise(h, t)
               /\ UNCHANGED <<queue, next_queue_id>>
          ELSE IF LastRunsHasSuccess(t.item.package, t.result.main_branch_revision)
          THEN /\ FinishRunReturn(h, t, queue, active_runs)
               /\ UNCHANGED <<queue, next_queue_id>>
          ELSE /\ next_queue_id <= NumItems + MaxControl
               /\ queue' = queue \cup {control}
               /\ next_queue_id' = next_queue_id + 1
               /\ FinishRunReturn(h, t, queue \cup {control}, active_runs)
    /\ UNCHANGED <<runs, runobj, active_runs, active_run_count, now, rate_limit_hosts,
                   topic_result, dry_run>>
    /\ UNCHANGED pubvars

\* QueueProcessor.register_run
RegisterRun(run) ==
    /\ runobj' = Append(runobj, run)
    /\ active_runs' = active_runs \cup {run.log_id}
    /\ active_run_count' = active_run_count + 1

\* ------------------------------------------------------------ POST /assign
\* The request arrives: next_queue_item computes its limit and iter_queue
\* fetches the listing; the handler is suspended on the database.
HandleAssign(h) ==
    /\ Ready
    /\ LowestIdle(h)
    /\ Suspend(h, [IdleTask EXCEPT !.kind = "assign", !.pc = "a_scan",
                                   !.listing = IterQueue(queue, ScanLimit)])
    /\ UNCHANGED <<queue, runs, runobj, active_runs, active_run_count, now, rate_limit_hosts,
                   next_queue_id, topic_result, dry_run>>
    /\ UNCHANGED pubvars

\* The listing arrives: the scan, the 503, or ActiveRun(...) and register_run
\* without a suspension in between; an item without branch_url is aborted
\* with not-in-vcs and the loop starts over.
AssignScan(h) ==
    /\ Ready
    /\ tasks[h].pc = "a_scan"
    /\ LET t == [tasks[h] EXCEPT !.listing = <<>>]
           next == NextQueueItem(tasks[h].listing)
           run == NewActiveRun(next.item)
           t2 == [t EXCEPT !.item = next.item, !.run_id = run.log_id]
       IN CASE next.kind = "raise" ->
                 /\ Raise(h, t)
                 /\ UNCHANGED <<runobj, active_runs, active_run_count, topic_result>>
            [] next.kind = "none" ->
                 /\ Respond(h, t, 503)
                 /\ UNCHANGED <<runobj, active_runs, active_run_count, topic_result>>
            [] next.kind = "item" ->
                 /\ Len(runobj) < MaxRuns
                 /\ RegisterRun(run)
                 /\ UNCHANGED topic_result
                 /\ IF next.item.branch_url = NoUrl
                    THEN Suspend(h, [t2 EXCEPT !.pc = "fr_call", !.ret = "assign-loop",
                                        !.result = CreateResult(run, "not-in-vcs")])
                    ELSE Suspend(h, [t2 EXCEPT !.pc = "a_open"])
    /\ UNCHANGED <<queue, runs, now, rate_limit_hosts, next_queue_id, dry_run>>
    /\ UNCHANGED pubvars

\* What silver_platter's open_branch does for the item's URL: a branch, or
\* one of the exceptions open_branch_ext catches (BranchUnavailable also with
\* the message of an HTTP 429).
OpenBranchOutcomes ==
    {"branch", "BranchRateLimited", "BranchUnavailable", "BranchUnavailable:429",
     "BranchMissing", "BranchUnsupported"}

\* The retry_after a BranchRateLimited carries: None (0) or a number of seconds.
RetryAfters == {0, 30}

\* vcs.is_alioth_url
IsAliothUrl(url) == url = "anonscm.debian.org"

NoException == [exc |-> "", code |-> "", retry_after |-> 0]

\* vcs._convert_branch_exception: every exception open_branch_ext catches
\* becomes a BranchOpenFailure with a code; only the one made of a
\* BranchRateLimited carries its retry_after.
ConvertBranchException(vcs_url, outcome, retry_after) ==
    [exc |-> "BranchOpenFailure",
     code |-> CASE outcome = "BranchRateLimited" -> "too-many-requests"
                [] outcome = "BranchUnavailable:429" -> "too-many-requests"
                [] outcome = "BranchUnavailable" ->
                      IF IsAliothUrl(vcs_url) THEN "hosted-on-alioth"
                      ELSE "branch-unavailable"
                [] outcome = "BranchMissing" ->
                      IF IsAliothUrl(vcs_url) THEN "hosted-on-alioth"
                      ELSE "branch-missing"
                [] outcome = "BranchUnsupported" ->
                      IF IsAliothUrl(vcs_url) THEN "hosted-on-alioth"
                      ELSE "unsupported-vcs",
     retry_after |-> IF outcome = "BranchRateLimited" THEN retry_after ELSE 0]

\* vcs.open_branch_ext
OpenBranchExt(vcs_url, outcome, retry_after) ==
    IF outcome = "branch" THEN NoException
    ELSE ConvertBranchException(vcs_url, outcome, retry_after)

\* What open_guessed_salsa_branch does for a branch hosted on alioth: a branch,
\* None, or an exception; BranchRateLimited is the one exception of a branch
\* open that handle_assign catches besides BranchOpenFailure.
GuessedSalsaOutcomes == {"branch", "None", "BranchOpenFailure", "BranchRateLimited"}

\* open_branch_with_fallback: the exception that leaves it (NoException when
\* it returns a branch).  Only a failure with code hosted-on-alioth tries the
\* guessed salsa branch; its BranchOpenFailure or None re-raise the first
\* failure, any other exception of it propagates.
OpenBranchWithFallback(vcs_url, outcome, retry_after, guessed) ==
    LET e == OpenBranchExt(vcs_url, outcome, retry_after)
    IN IF e.exc = "BranchOpenFailure" /\ e.code = "hosted-on-alioth"
       THEN CASE guessed = "branch" -> NoException
              [] guessed = "BranchRateLimited" ->
                    [exc |-> "BranchRateLimited", code |-> "BranchRateLimited",
                     retry_after |-> retry_after]
              [] OTHER -> e
       ELSE e

\* Other exceptions between register_run and the response (get_suite_config,
\* build_env, the resume-branch check, splitout_env).
AssignErrors == {"", "AssertionError"}

\* From register_run to the response: build_env, the main branch, the resume
\* branch (none of the suspensions in between touches the runner's state),
\* the except clauses of handle_assign, then the assignment document,
\* start_watchdog and the 201.  A BranchRateLimited that leaves
\* open_branch_with_fallback records the backoff and aborts the run with
\* pull-rate-limited; a BranchOpenFailure only leaves the run without resume
\* branch.
AssignReturn(h) ==
    /\ Ready
    /\ tasks[h].pc = "a_open"
    /\ \E outcome \in OpenBranchOutcomes, guessed \in GuessedSalsaOutcomes,
          error \in AssignErrors, retry_after \in RetryAfters :
          LET e == OpenBranchWithFallback(tasks[h].item.branch_url, outcome,
                                          retry_after, guessed)
              t == [tasks[h] EXCEPT !.branch_error = e.code,
                                    !.retry_after = e.retry_after]
          IN IF e.exc = "BranchRateLimited"
             THEN /\ rate_limit_hosts' =
                        RateLimited(rate_limit_hosts, t.item.branch_url, e.retry_after)
                  /\ Suspend(h, [t EXCEPT !.pc = "fr_call", !.ret = "assign-429",
                        !.result = CreateResult(runobj[t.run_id], "pull-rate-limited")])
                  /\ UNCHANGED runobj
             ELSE /\ UNCHANGED rate_limit_hosts
                  /\ IF error # ""
                     THEN /\ Raise(h, t)
                          /\ UNCHANGED runobj
                     ELSE /\ runobj' = [runobj EXCEPT ![t.run_id] =
                                [StartWatchdog(@) EXCEPT !.returned = TRUE]]
                          /\ Respond(h, t, 201)
    /\ UNCHANGED <<queue, runs, active_runs, active_run_count, now, next_queue_id, topic_result,
                   dry_run>>
    /\ UNCHANGED pubvars

\* ------------------------------------------- POST /active-runs/{id}/finish
\* The registry lookup and stop_watchdog, then the multipart read (which
\* touches nothing shared): 400 without result.json; get_queue_item when the
\* run was not registered; else the logs and artifacts are imported before
\* finish_run is called.  A request for a registered run carries the queue id
\* that run was assigned.
HandleFinish(h, run_id, wr) ==
    /\ Ready
    /\ LowestIdle(h)
    /\ LET found == run_id \in active_runs
           t == [IdleTask EXCEPT !.kind = "finish", !.run_id = run_id, !.wr = wr,
                                 !.found = found,
                                 !.item = IF found THEN runobj[run_id].queue_item
                                          ELSE NoItem]
       IN /\ found => wr.queue_id = runobj[run_id].queue_item.id
          /\ runobj' = IF found
                       THEN [runobj EXCEPT ![run_id] = StopWatchdog(@)]
                       ELSE runobj
          /\ IF ~wr.present
             THEN Respond(h, t, 400)
             ELSE IF ~found
             THEN Suspend(h, [t EXCEPT !.pc = "f_item"])
             ELSE Suspend(h, [t EXCEPT !.pc = "fr_call", !.ret = "finish",
                                       !.result = JanitorResult(run_id, wr)])
    /\ UNCHANGED <<queue, runs, active_runs, active_run_count, now, rate_limit_hosts,
                   next_queue_id, topic_result, dry_run>>
    /\ UNCHANGED pubvars

\* A handler that refuses every run id the registry does not know.
FinishItemRefuses(h) ==
    /\ Ready
    /\ tasks[h].pc = "f_item"
    /\ Respond(h, tasks[h], 404)
    /\ UNCHANGED <<queue, runs, runobj, active_runs, active_run_count, now, rate_limit_hosts,
                   next_queue_id, topic_result, dry_run>>
    /\ UNCHANGED pubvars

\* get_queue_item answers: 404 without a row, else the request goes on with
\* the row as it does for a registered run.
FinishItem(h) ==
    /\ Ready
    /\ tasks[h].pc = "f_item"
    /\ LET queue_item == GetQueueItem(tasks[h].wr.queue_id)
           t == [tasks[h] EXCEPT !.item = queue_item]
       IN IF queue_item = NoItem
          THEN Respond(h, t, 404)
          ELSE Suspend(h, [t EXCEPT !.pc = "fr_call", !.ret = "finish",
                                    !.result = JanitorResult(t.run_id, t.wr)])
    /\ UNCHANGED <<queue, runs, runobj, active_runs, active_run_count, now, rate_limit_hosts,
                   next_queue_id, topic_result, dry_run>>
    /\ UNCHANGED pubvars

\* ------------------------------------ GET /log/{id} and POST /kill/{id}
\* What the handler does with the run _find_active_run returned: the log index
\* answers 200; kill builds the status document and ActiveRun.kill raises.
AfterFindActiveRun(h, t) ==
    IF t.kind = "log-index" THEN Respond(h, t, 200) ELSE Raise(h, t)

\* _find_active_run up to its suspension.  queue_id 0: the query parameters
\* queue_id and worker_name are missing.
HandleFindActiveRun(h, kind, run_id, queue_id) ==
    /\ Ready
    /\ LowestIdle(h)
    /\ LET found == run_id \in active_runs
           t == [IdleTask EXCEPT !.kind = kind, !.run_id = run_id, !.pc = "l_item",
                                 !.found = found,
                                 !.wr = [NoResult EXCEPT !.queue_id = queue_id]]
       IN IF found
          THEN /\ queue_id = 0
               /\ AfterFindActiveRun(h, [t EXCEPT !.item = runobj[run_id].queue_item])
          ELSE IF queue_id = 0
          THEN Respond(h, t, 404)
          ELSE Suspend(h, t)
    /\ UNCHANGED <<queue, runs, runobj, active_runs, active_run_count, now, rate_limit_hosts,
                   next_queue_id, topic_result, dry_run>>
    /\ UNCHANGED pubvars

\* get_queue_item answers: 404 without a row, else a new ActiveRun for the
\* row is registered and returned to the handler.
FindActiveRunResume(h) ==
    /\ Ready
    /\ tasks[h].pc = "l_item"
    /\ LET queue_item == GetQueueItem(tasks[h].wr.queue_id)
           active_run == NewActiveRun(queue_item)
           t == [tasks[h] EXCEPT !.item = queue_item]
       IN IF queue_item = NoItem
          THEN /\ Respond(h, t, 404)
               /\ UNCHANGED <<runobj, active_runs, active_run_count>>
          ELSE /\ Len(runobj) < MaxRuns
               /\ RegisterRun(active_run)
               /\ AfterFindActiveRun(h, [t EXCEPT !.run_id = active_run.log_id])
    /\ UNCHANGED <<queue, runs, now, rate_limit_hosts, next_queue_id,
                   topic_result, dry_run>>
    /\ UNCHANGED pubvars

\* One request without a task slot: it is answered in the step it arrives.
Answer(kind, run_id, status) ==
    response' = [kind |-> kind, status |-> status, run_id |-> run_id, queue_id |-> 0,
                 found |-> run_id \in active_runs, branch_error |-> "",
                 retry_after |-> 0]

\* ---------------------------------------- POST /active-runs/{id}/keepalive
\* The handler has no suspension point.  It calls active_run.keepalive().
HandleKeepalive(run_id) ==
    /\ Ready
    /\ IF run_id \notin active_runs
       THEN /\ Answer("keepalive", run_id, 404)
            /\ UNCHANGED runobj
       ELSE IF HasAttr(runobj[run_id].cls, "keepalive")
       THEN /\ runobj' = [runobj EXCEPT ![run_id] = ResetKeepalive(@)]
            /\ Answer("keepalive", run_id, 200)
       ELSE /\ Answer("keepalive", run_id, 500)
            /\ UNCHANGED runobj
    /\ UNCHANGED <<queue, runs, active_runs, active_run_count, tasks, now, rate_limit_hosts,
                   next_queue_id, topic_result, dry_run>>
    /\ UNCHANGED pubvars

\* ------------------------------------ POST /active-runs/{id}/log/{name}
\* The body is appended to the run's buffer (nothing modelled reads it), then
\* reset_keepalive and 200.
HandleUploadLog(run_id) ==
    /\ Ready
    /\ IF run_id \notin active_runs
       THEN /\ Answer("upload-log", run_id, 404)
            /\ UNCHANGED runobj
       ELSE /\ runobj' = [runobj EXCEPT ![run_id] = ResetKeepalive(@)]
            /\ Answer("upload-log", run_id, 200)
    /\ UNCHANGED <<queue, runs, active_runs, active_run_count, tasks, now, rate_limit_hosts,
                   next_queue_id, topic_result, dry_run>>
    /\ UNCHANGED pubvars

\* The same route with its request body: the chunks iter_chunks yields.  The
\* handler suspends for every chunk and once more for the end of the body.
Chunks == {"a", "b"}

Bodies == UNION {[1..n -> Chunks] : n \in 0..MaxChunks}

\* The registry lookup: 404 for an unknown run id, else the handler holds the
\* ActiveRun and waits for the first chunk.
UploadLogBegin(h, run_id, logname, body) ==
    /\ Ready
    /\ LowestIdle(h)
    /\ LET t == [kind |-> "upload-log", pc |-> "u_chunk", run_id |-> run_id,
                 item |-> NoItem, listing |-> <<>>, wr |-> NoResult,
                 found |-> run_id \in active_runs, result |-> NoJanitorResult,
                 ret |-> "", branch_error |-> "", retry_after |-> 0,
                 logname |-> logname, body |-> body, published |-> 0]
       IN IF run_id \notin active_runs
          THEN Respond(h, t, 404)
          ELSE /\ Len(runobj[run_id].log_files[logname].data) + Len(body) <= MaxLogLen
               /\ Suspend(h, t)
    /\ UNCHANGED <<queue, runs, runobj, active_runs, active_run_count, now, rate_limit_hosts,
                   next_queue_id, topic_result, dry_run>>
    /\ UNCHANGED pubvars

\* One chunk: append_log, and the queue status on the topic when the chunk
\* created the buffer; published counts the request's publications.
UploadLogChunk(h) ==
    /\ Ready
    /\ tasks[h].pc = "u_chunk"
    /\ tasks[h].body # <<>>
    /\ LET t == tasks[h]
           a == AppendLog(runobj[t.run_id], t.logname, Head(t.body))
       IN /\ runobj' = [runobj EXCEPT ![t.run_id] = a.run]
          /\ tasks' = [tasks EXCEPT ![h] =
                [t EXCEPT !.body = Tail(@),
                          !.published = IF a.ret THEN @ + 1 ELSE @]]
    /\ UNCHANGED <<queue, runs, active_runs, active_run_count, now, rate_limit_hosts, next_queue_id,
                   topic_result, response, dry_run>>
    /\ UNCHANGED pubvars

\* The body has ended: reset_keepalive and 200.
UploadLogEnd(h) ==
    /\ Ready
    /\ tasks[h].pc = "u_chunk"
    /\ tasks[h].body = <<>>
    /\ runobj' = [runobj EXCEPT ![tasks[h].run_id] = ResetKeepalive(@)]
    /\ Respond(h, tasks[h], 200)
    /\ UNCHANGED <<queue, runs, active_runs, active_run_count, now, rate_limit_hosts, next_queue_id,
                   topic_result, dry_run>>
    /\ UNCHANGED pubvars

\* --------------------------------------------------------------- watchdog
\* One wake-up of ActiveRun.watchdog.  On a timeout it awaits
\* queue_processor.finish_run(self, result): the item finish_run is handed is
\* the ActiveRun itself.  finish_run reads item.package and item.suite for its
\* metrics before anything else; where the item has them, the transaction,
\* the publish and the registry removal follow, else the task ends with the
\* AttributeError.  The gauge is decremented before either.
Watchdog(id) ==
    /\ Ready
    /\ id \in DOMAIN runobj
    /\ runobj[id].watch_dog = "sleeping"
    /\ runobj[id].wake_at <= now
    /\ LET run == runobj[id]
           duration == now - run.last_keepalive
           result == CreateResult(run, "worker-timeout")
           db == Transaction(~dry_run, run, result)
       IN IF duration > KEEPALIVE_INTERVAL * 2
          THEN IF HasAttr(run.cls, "package") /\ HasAttr(run.cls, "suite")
               THEN /\ runobj' = [runobj EXCEPT ![id].watch_dog = "finished",
                                                ![id].wake_at = 0]
                    /\ runs' = db.runs
                    /\ queue' = db.queue
                    /\ topic_result' = topic_result \cup
                          {[log_id |-> result.log_id, code |-> result.code]}
                    /\ active_runs' = active_runs \ {result.log_id}
                    /\ active_run_count' = active_run_count - 1
               ELSE /\ runobj' = [runobj EXCEPT ![id].watch_dog = "crashed",
                                                ![id].wake_at = 0]
                    /\ active_run_count' = active_run_count - 1
                    /\ UNCHANGED <<queue, runs, active_runs, topic_result>>
          ELSE /\ runobj' = [runobj EXCEPT ![id].wake_at = now + KEEPALIVE_INTERVAL]
               /\ UNCHANGED <<queue, runs, active_runs, active_run_count, topic_result>>
    /\ UNCHANGED <<tasks, now, rate_limit_hosts, next_queue_id, response, dry_run>>
    /\ UNCHANGED pubvars

\* The clock advances by one interval.  A watchdog whose sleep has ended runs
\* first; only watchdog wake-ups read the clock, so it is left alone while no
\* watchdog sleeps.
Tick ==
    /\ Ready
    /\ now < MaxTicks * KEEPALIVE_INTERVAL
    /\ \E id \in DOMAIN runobj : runobj[id].watch_dog = "sleeping"
    /\ \A id \in DOMAIN runobj :
          runobj[id].watch_dog = "sleeping" => runobj[id].wake_at > now
    /\ now' = now + KEEPALIVE_INTERVAL
    /\ UNCHANGED <<queue, runs, runobj, active_runs, active_run_count, tasks, rate_limit_hosts,
                   next_queue_id, topic_result, response, dry_run>>
    /\ UNCHANGED pubvars

\* The clock advances by one backoff step while no watchdog is due.
Elapse ==
    /\ Ready
    /\ now < MaxElapse * BackoffStep
    /\ \A id \in DOMAIN runobj :
          runobj[id].watch_dog = "sleeping" => runobj[id].wake_at > now + BackoffStep
    /\ now' = now + BackoffStep
    /\ UNCHANGED <<queue, runs, runobj, active_runs, active_run_count, tasks, rate_limit_hosts,
                   next_queue_id, topic_result, response, dry_run>>
    /\ UNCHANGED pubvars

\* ============================================================== publisher
\* janitor/publish.py for one run of one package: every publish_from_policy
\* call of a behaviour is for the same (package, branch_name, revision), with
\* the mode the policy gives the package and the package's main branch URL.
MODE_SKIP == "skip"
MODE_BUILD_ONLY == "build-only"
MODE_PUSH == "push"
MODE_PUSH_DERIVED == "push-derived"
MODE_PROPOSE == "propose"
MODE_ATTEMPT_PUSH == "attempt-push"
SUPPORTED_MODES ==
    {MODE_PUSH, MODE_SKIP, MODE_BUILD_ONLY, MODE_PUSH_DERIVED, MODE_PROPOSE,
     MODE_ATTEMPT_PUSH}

\* Main branch URLs: one inside the namespace salsa.debian.org/debian/, one
\* outside.
MainBranchUrls == {"salsa.debian.org/debian/", "salsa.debian.org/team/"}

\* A predicate that lets every push through.
NeverPushNothing(main_branch_url) == FALSE

\* "salsa.debian.org/debian/" in main_branch_url
NeverPush(main_branch_url) == main_branch_url = "salsa.debian.org/debian/"

Publishers == 1..MaxPublishers

\* _open_mps_per_maintainer / _merged_mps_per_maintainer before the first
\* set_mps_per_maintainer: None.
NoCounts == -1

\* The rate limiters of main(); open and merged are the counts of the one
\* maintainer modelled (dict.get(email, 0)).
NonRateLimiter ==
    [cls |-> "NonRateLimiter", max |-> 0, open |-> NoCounts, merged |-> NoCounts]

MaintainerRateLimiter(max_mps_per_maintainer) ==
    [cls |-> "MaintainerRateLimiter", max |-> max_mps_per_maintainer,
     open |-> NoCounts, merged |-> NoCounts]

SlowStartRateLimiter(max_mps_per_maintainer) ==
    [cls |-> "SlowStartRateLimiter", max |-> max_mps_per_maintainer,
     open |-> NoCounts, merged |-> NoCounts]

\* main(): --slowstart with any --max-mps-per-maintainer (an int, default 0),
\* else MaintainerRateLimiter for a positive maximum, else NonRateLimiter.
RateLimiters ==
    {NonRateLimiter}
        \cup {MaintainerRateLimiter(n) : n \in 1..MaxCap}
        \cup {SlowStartRateLimiter(n) : n \in -1..MaxCap}

\* set_mps_per_maintainer of the three classes.
SetMpsPerMaintainer(limiter, open, merged) ==
    CASE limiter.cls = "MaintainerRateLimiter" -> [limiter EXCEPT !.open = open]
      [] limiter.cls = "SlowStartRateLimiter" ->
            [limiter EXCEPT !.open = open, !.merged = merged]
      [] OTHER -> limiter

\* MaintainerRateLimiter.check_allowed: "RateLimited" where it raises.
MaintainerCheckAllowed(limiter) ==
    IF limiter.max = 0 THEN ""
    ELSE IF limiter.open = NoCounts THEN "RateLimited"
    ELSE IF limiter.open > limiter.max THEN "RateLimited"
    ELSE ""

\* A slow start that ignores the merged count.
SlowStartCheckAllowedNoTrust(limiter) ==
    IF limiter.open = NoCounts \/ limiter.merged = NoCounts THEN "RateLimited"
    ELSE IF limiter.max # 0 /\ limiter.open >= limiter.max THEN "RateLimited"
    ELSE ""

\* A slow start that allows until the counts are loaded.
SlowStartCheckAllowedEager(limiter) ==
    IF limiter.open = NoCounts \/ limiter.merged = NoCounts THEN ""
    ELSE IF limiter.max # 0 /\ limiter.open >= limiter.max THEN "RateLimited"
    ELSE IF limiter.open > limiter.merged + 1 THEN "RateLimited"
    ELSE ""

\* SlowStartRateLimiter.check_allowed: "RateLimited" where it raises.
SlowStartCheckAllowed(limiter) ==
    IF limiter.open = NoCounts \/ limiter.merged = NoCounts THEN "RateLimited"
    ELSE IF limiter.max # 0 /\ limiter.open >= limiter.max THEN "RateLimited"
    ELSE IF limiter.open > limiter.merged + 1 THEN "RateLimited"
    ELSE ""

\* rate_limiter.check_allowed(maintainer_email)
CheckAllowed(limiter) ==
    CASE limiter.cls = "MaintainerRateLimiter" -> MaintainerCheckAllowed(limiter)
      [] limiter.cls = "SlowStartRateLimiter" -> SlowStartCheckAllowed(limiter)
      [] OTHER -> ""

\* rate_limiter.inc(maintainer_email)
Inc(limiter) ==
    IF limiter.cls = "NonRateLimiter" \/ limiter.open = NoCounts THEN limiter
    ELSE [limiter EXCEPT !.open = @ + 1]

\* The row store_publish inserts (branch_name "None" after a failure).
PublishRow(branch_name, mode, code) ==
    [package |-> "pkg", branch_name |-> branch_name, revision |-> "rev1",
     mode |-> mode, code |-> code]

\* state.already_published: the publish table has a row for the package,
\* branch name, revision and mode.
AlreadyPublished(package, branch_name, revision, mode) ==
    \E i \in DOMAIN publish :
        /\ publish[i].package = package
        /\ publish[i].branch_name = branch_name
        /\ publish[i].revision = revision
        /\ publish[i].mode = mode

\* What publish_one returns or raises: the subprocess reports a new proposal,
\* an updated proposal or a push without proposal (exit code 0), or a failure
\* (exit code 1, PublishFailure).  A proposal needs a mode that proposes.
PublishOneOutcomes(mode) ==
    (IF mode \in {MODE_PROPOSE, MODE_ATTEMPT_PUSH}
     THEN {"new-proposal", "updated-proposal"} ELSE {})
        \cup (IF mode # MODE_PROPOSE THEN {"pushed"} ELSE {})
        \cup {"PublishFailure"}

\* The exit status of the publish subprocess (p.returncode): killed by a
\* signal, 0, 1, or another exit code.
ReturnCodes == {-9, 0, 1, 2}

\* What the publish subprocess wrote to stdout: the JSON object of a new
\* proposal, of an updated proposal or of a push without proposal, the JSON
\* object {code, description} of a failure, a JSON object with neither set of
\* keys, or text that is not JSON.
Stdouts ==
    {"new-proposal", "updated-proposal", "pushed", "failure", "object", "malformed"}

\* The code a failing subprocess reports in its JSON object.
SubprocessCode == "publish-failed"

\* raise PublishFailure(mode, code, description)
PublishFailure(mode, code) ==
    [exc |-> "PublishFailure", mode |-> mode, code |-> code, proposal_url |-> FALSE,
     is_new |-> FALSE]

\* An exception publish_one does not catch.
Escapes(mode, exc) ==
    [exc |-> exc, mode |-> mode, code |-> "", proposal_url |-> FALSE, is_new |-> FALSE]

\* publish_one: what it returns (exc "") or raises for the local branch
\* (FALSE: vcs_manager.get_branch found none), the exit status and the
\* output of the subprocess.  Exit 1 reads code and description from the JSON
\* object; exit 0 reads proposal_url, branch_name and is_new with .get().
PublishOneResult(mode, local_branch, returncode, stdout) ==
    IF ~local_branch THEN PublishFailure(mode, "result-branch-not-found")
    ELSE IF returncode = 1
    THEN IF stdout = "malformed"
         THEN PublishFailure(mode, "publisher-invalid-response")
         ELSE IF stdout = "failure" THEN PublishFailure(mode, SubprocessCode)
         ELSE Escapes(mode, "KeyError")
    ELSE IF returncode = 0
    THEN IF stdout = "malformed" THEN Escapes(mode, "JSONDecodeError")
         ELSE [exc |-> "", mode |-> mode, code |-> "",
               proposal_url |-> stdout \in {"new-proposal", "updated-proposal"},
               is_new |-> stdout = "new-proposal"]
    ELSE PublishFailure(mode, "publisher-invalid-response")

\* No publish_one call has ended.
NoSubprocess == [local_branch |-> TRUE, returncode |-> 0, stdout |-> "", exc |-> "",
                 code |-> ""]

\* The locals of one publish_from_policy call: the mode it was called with,
\* the mode it goes on with, what already_published answered, whether
\* check_allowed raised, whether publish_one was awaited, what the publish
\* subprocess did and what publish_one made of it, the row for store_publish.
IdlePublish ==
    [pc |-> "idle", mode_in |-> "", mode |-> "", published |-> FALSE,
     limited |-> FALSE, invoked |-> FALSE, sub |-> NoSubprocess,
     row |-> PublishRow("", "", "")]

NoReturn == [mode_in |-> "", mode |-> "", published |-> FALSE, limited |-> FALSE,
             invoked |-> FALSE, sub |-> NoSubprocess, stored |-> FALSE]

\* No call is returning: the event loop runs the next callback.
PReady == preturn = NoReturn

\* publish_from_policy returns to its caller.
PReturn(p, t, stored) ==
    /\ ptasks' = [ptasks EXCEPT ![p] = IdlePublish]
    /\ preturn' = [mode_in |-> t.mode_in, mode |-> t.mode, published |-> t.published,
                   limited |-> t.limited, invoked |-> t.invoked, sub |-> t.sub,
                   stored |-> stored]

\* The caller has taken the return.
PublishReturned ==
    /\ ~PReady
    /\ preturn' = NoReturn
    /\ UNCHANGED <<publish, rate_limiter, proposal_rate_limited, ptasks, policy>>
    /\ UNCHANGED runnervars
    /\ UNCHANGED reconcilevars

\* Calls are interchangeable: a new one takes the lowest idle slot.
LowestIdlePublisher(p) ==
    /\ ptasks[p].pc = "idle"
    /\ \A q \in Publishers : q < p => ptasks[q].pc # "idle"

\* publish_pending_new or listen_to_runner calls publish_from_policy with the
\* policy's mode: build-only and skip return at once, any other mode asks
\* already_published and suspends on the database.
PublishFromPolicy(p) ==
    /\ PReady
    /\ LowestIdlePublisher(p)
    /\ Len(publish) + proposal_rate_limited
          + Cardinality({q \in Publishers : ptasks[q].pc # "idle"}) < MaxPublishCalls
    /\ LET t == [IdlePublish EXCEPT !.mode_in = policy.mode, !.mode = policy.mode]
       IN IF t.mode \in {MODE_BUILD_ONLY, MODE_SKIP}
          THEN PReturn(p, t, FALSE)
          ELSE /\ ptasks' = [ptasks EXCEPT ![p] =
                     [t EXCEPT !.pc = "pp_published",
                               !.published = AlreadyPublished("pkg", "branch", "rev1", t.mode)]]
               /\ UNCHANGED preturn
    /\ UNCHANGED <<publish, rate_limiter, proposal_rate_limited, policy>>
    /\ UNCHANGED runnervars
    /\ UNCHANGED reconcilevars

\* already_published has answered: return if it said yes; consult the rate
\* limiter for propose and attempt-push (RateLimited counts and degrades the
\* mode to build-only); attempt-push into salsa.debian.org/debian/ becomes
\* propose; build-only and skip return; else publish_one starts the publish
\* subprocess and the call suspends on it.
PublishDecide(p) ==
    /\ PReady
    /\ ptasks[p].pc = "pp_published"
    /\ LET t == ptasks[p]
           limited == /\ t.mode \in {MODE_PROPOSE, MODE_ATTEMPT_PUSH}
                      /\ CheckAllowed(rate_limiter) = "RateLimited"
           mode1 == IF limited THEN MODE_BUILD_ONLY ELSE t.mode
           mode2 == IF mode1 = MODE_ATTEMPT_PUSH /\ NeverPush(policy.main_branch_url)
                    THEN MODE_PROPOSE ELSE mode1
           t2 == [t EXCEPT !.limited = limited, !.mode = mode2]
       IN IF t.published
          THEN /\ PReturn(p, t, FALSE)
               /\ UNCHANGED proposal_rate_limited
          ELSE /\ proposal_rate_limited' =
                     IF limited THEN proposal_rate_limited + 1 ELSE proposal_rate_limited
               /\ IF mode2 \in {MODE_BUILD_ONLY, MODE_SKIP}
                  THEN PReturn(p, t2, FALSE)
                  ELSE /\ ptasks' = [ptasks EXCEPT ![p] =
                             [t2 EXCEPT !.pc = "pp_publish_one", !.invoked = TRUE]]
                       /\ UNCHANGED preturn
    /\ UNCHANGED <<publish, rate_limiter, policy>>
    /\ UNCHANGED runnervars
    /\ UNCHANGED reconcilevars

\* The publish subprocess has ended and publish_one returns or raises.  A
\* PublishFailure is caught and becomes the row's code; a new proposal is
\* counted by rate_limiter.inc; then store_publish is awaited.  Any other
\* exception leaves publish_from_policy.
PublishOne(p, local_branch, returncode, stdout) ==
    /\ PReady
    /\ ptasks[p].pc = "pp_publish_one"
    /\ (returncode = 0 /\ stdout \in {"new-proposal", "updated-proposal", "pushed"})
          => stdout \in PublishOneOutcomes(ptasks[p].mode)
    /\ LET r == PublishOneResult(ptasks[p].mode, local_branch, returncode, stdout)
           t == [ptasks[p] EXCEPT !.sub =
                    [local_branch |-> local_branch, returncode |-> returncode,
                     stdout |-> stdout, exc |-> r.exc, code |-> r.code]]
           row == IF r.exc = "PublishFailure"
                  THEN PublishRow("None", t.mode, r.code)
                  ELSE PublishRow("branch", t.mode, "success")
       IN /\ (r.proposal_url /\ r.is_new) => rate_limiter.open < MaxCount
          /\ rate_limiter' = IF r.proposal_url /\ r.is_new THEN Inc(rate_limiter)
                             ELSE rate_limiter
          /\ IF r.exc \in {"", "PublishFailure"}
             THEN /\ ptasks' = [ptasks EXCEPT ![p] =
                        [t EXCEPT !.pc = "pp_store", !.row = row]]
                  /\ UNCHANGED preturn
             ELSE PReturn(p, t, FALSE)
    /\ UNCHANGED <<publish, proposal_rate_limited, policy>>
    /\ UNCHANGED runnervars
    /\ UNCHANGED reconcilevars

\* store_publish commits the row; the publish event goes out and the call
\* returns.
StorePublish(p) ==
    /\ PReady
    /\ ptasks[p].pc = "pp_store"
    /\ publish' = Append(publish, ptasks[p].row)
    /\ PReturn(p, ptasks[p], TRUE)
    /\ UNCHANGED <<rate_limiter, proposal_rate_limited, policy>>
    /\ UNCHANGED runnervars
    /\ UNCHANGED reconcilevars

\* The end of a check_existing pass: the counts of the proposals it found at
\* the hosters are installed in the rate limiter.
CheckExisting(open, merged) ==
    /\ PReady
    /\ rate_limiter' = SetMpsPerMaintainer(rate_limiter, open, merged)
    /\ rate_limiter' # rate_limiter
    /\ UNCHANGED <<publish, proposal_rate_limited, ptasks, preturn, policy>>
    /\ UNCHANGED runnervars
    /\ UNCHANGED reconcilevars

\* The publisher after main() built its rate limiter.
PublisherInit(limiter, mode, main_branch_url) ==
    /\ publish = <<>>
    /\ rate_limiter = limiter
    /\ proposal_rate_limited = 0
    /\ ptasks = [p \in Publishers |-> IdlePublish]
    /\ preturn = NoReturn
    /\ policy = [mode |-> mode, main_branch_url |-> main_branch_url]

\* ------------------------------------------------------------- reconciler
\* check_existing.  Merge proposal i is the one for package i; a proposal
\* record holds what the hoster and the database say of it:
\*   status     the status under which iter_all_mps yields it
\*   stored     the status get_proposal_info returns ("None": KeyError)
\*   maintainer whether a maintainer_email is known for it
\*   mp_run     whether get_merge_proposal_run finds its originating run
\*   last_run   get_last_unabsorbed_run of its (package, suite): "None", the
\*              originating run itself ("mp_run"), a later run with result
\*              code success or nothing-to-do ("newer"), or a failed run
\*   conflicted whether is_conflicted(mp) is true
\*   closed     how often mp.close() was called
Statuses == {"open", "merged", "closed"}

ProposalShapes ==
    { mp \in [status : Statuses, stored : Statuses \cup {"None"},
              maintainer : BOOLEAN, mp_run : BOOLEAN,
              last_run : {"None", "mp_run", "newer", "failed"},
              conflicted : BOOLEAN, closed : {0}] :
        /\ (mp.status # "open" \/ ~mp.mp_run)
              => (mp.last_run = "None" /\ ~mp.conflicted)
        /\ mp.last_run # "mp_run" => ~mp.conflicted }

\* The queue row add_to_queue inserts for a refresh of a package.
RefreshRow(i, package) ==
    [cls |-> "QueueItem", id |-> i, package |-> package, suite |-> "lintian-fixes",
     bucket |-> 0, branch_url |-> "salsa.debian.org"]

\* The pass: where it is (pc "idle", "loop" or "crashed"), the proposal the
\* loop is at, the passes begun, and mps_per_maintainer of the one maintainer.
IdleReconciler == [pc |-> "idle", i |-> 0, passes |-> 0, open |-> 0, merged |-> 0]

\* update_proposal_status: set_proposal_info and the event on the topic.
UpdateProposalStatus(mp, status) == [mp EXCEPT !.stored = status]

MergeProposalEvent(i, status) == [url |-> i, status |-> status]

\* A reconciler that closes every open proposal without a last run, whether
\* its originating run is known or not.
NeedsClosingWithoutRun(mp) == mp.status = "open" /\ mp.last_run = "None"

\* The tests of check_existing that lead to the close: the proposal is open,
\* its originating run is known and its (package, suite) has no last
\* unabsorbed run.
NeedsClosing(mp) == mp.status = "open" /\ mp.mp_run /\ mp.last_run = "None"

\* mp.close() after update_proposal_status(mp, 'closed', ...): the hoster
\* lists the proposal as closed from then on.
CloseProposal(mp) ==
    [UpdateProposalStatus(mp, "closed") EXCEPT !.status = "closed", !.closed = @ + 1]

\* process_queue_loop calls check_existing: the counts start empty.
CheckExistingBegin ==
    /\ PReady
    /\ reconciler.pc = "idle"
    /\ reconciler.passes < MaxPasses
    /\ reconciler' = [pc |-> "loop", i |-> 1, passes |-> reconciler.passes + 1,
                      open |-> 0, merged |-> 0]
    /\ UNCHANGED <<publish, rate_limiter, proposal_rate_limited, ptasks, preturn,
                   policy, proposals, topic_merge_proposal>>
    /\ UNCHANGED runnervars

\* One iteration of the loop over iter_all_mps (its database calls touch
\* nothing another task of the publisher writes): the status transition, the
\* count, and for an open proposal with a known run the close, the update
\* through publish_one in mode propose, or the refresh of a conflicted
\* proposal.  An exception publish_one does not catch, and the assertion that
\* the update did not open a new proposal, end the pass.
CheckExistingProposal(returncode, stdout) ==
    /\ PReady
    /\ reconciler.pc = "loop"
    /\ reconciler.i <= Len(proposals)
    /\ LET i == reconciler.i
           mp == proposals[i]
           changed == mp.stored # mp.status
           mp1 == IF changed THEN UpdateProposalStatus(mp, mp.status) ELSE mp
           events1 == IF changed
                      THEN Append(topic_merge_proposal, MergeProposalEvent(i, mp.status))
                      ELSE topic_merge_proposal
           counted == [reconciler EXCEPT
                          !.i = i + 1,
                          !.open = IF mp.maintainer /\ mp.status = "open"
                                   THEN @ + 1 ELSE @,
                          !.merged = IF mp.maintainer /\ mp.status = "merged"
                                     THEN @ + 1 ELSE @]
           r == PublishOneResult(MODE_PROPOSE, TRUE, returncode, stdout)
           updating == mp.status = "open" /\ mp.mp_run /\ mp.last_run = "newer"
       IN /\ updating => \/ returncode # 0
                         \/ stdout \notin {"new-proposal", "updated-proposal", "pushed"}
                         \/ stdout \in PublishOneOutcomes(MODE_PROPOSE)
          /\ ~updating => (returncode = 0 /\ stdout = "updated-proposal")
          /\ IF NeedsClosing(mp)
             THEN /\ proposals' = [proposals EXCEPT ![i] = CloseProposal(mp1)]
                  /\ topic_merge_proposal' =
                        Append(events1, MergeProposalEvent(i, "closed"))
                  /\ reconciler' = counted
                  /\ UNCHANGED <<publish, queue, next_queue_id>>
             ELSE IF updating
             THEN /\ topic_merge_proposal' = events1
                  /\ UNCHANGED <<queue, next_queue_id>>
                  /\ IF r.exc = "PublishFailure"
                     THEN /\ publish' = Append(publish,
                                PublishRow("branch", MODE_PROPOSE, r.code))
                          /\ proposals' = [proposals EXCEPT ![i] = mp1]
                          /\ reconciler' = counted
                     ELSE IF r.exc # ""
                     THEN /\ publish' = publish
                          /\ proposals' = [proposals EXCEPT ![i] = mp1]
                          /\ reconciler' = [counted EXCEPT !.pc = "crashed"]
                     ELSE /\ publish' = Append(publish,
                                PublishRow("branch", MODE_PROPOSE, "success"))
                          /\ proposals' = [proposals EXCEPT ![i] =
                                              [mp1 EXCEPT !.last_run = "mp_run"]]
                          /\ reconciler' = IF r.is_new
                                           THEN [counted EXCEPT !.pc = "crashed"]
                                           ELSE counted
             ELSE /\ proposals' = [proposals EXCEPT ![i] = mp1]
                  /\ topic_merge_proposal' = events1
                  /\ reconciler' = counted
                  /\ UNCHANGED publish
                  /\ IF mp.status = "open" /\ mp.mp_run /\ mp.last_run = "mp_run"
                        /\ mp.conflicted
                     THEN /\ queue' = queue \cup {RefreshRow(next_queue_id, i)}
                          /\ next_queue_id' = next_queue_id + 1
                     ELSE UNCHANGED <<queue, next_queue_id>>
    /\ UNCHANGED <<rate_limiter, proposal_rate_limited, ptasks, preturn, policy>>
    /\ UNCHANGED <<runs, runobj, active_runs, active_run_count, tasks, now, rate_limit_hosts,
                   topic_result, response, dry_run>>

\* The loop is over: the counts are installed in the rate limiter and the
\* pass returns.
CheckExistingEnd ==
    /\ PReady
    /\ reconciler.pc = "loop"
    /\ reconciler.i > Len(proposals)
    /\ rate_limiter' =
          SetMpsPerMaintainer(rate_limiter, reconciler.open, reconciler.merged)
    /\ reconciler' = [reconciler EXCEPT !.pc = "idle", !.i = 0]
    /\ UNCHANGED <<publish, proposal_rate_limited, ptasks, preturn, policy,
                   proposals, topic_merge_proposal>>
    /\ UNCHANGED runnervars

\* The reconciler before its first pass, with the proposals the hosters hold.
ReconcilerInit(mps) ==
    /\ proposals = mps
    /\ topic_merge_proposal = <<>>
    /\ reconciler = IdleReconciler

\* ------------------------------------------------------------------- spec
Init ==
    /\ queue = {InitialRow(i) : i \in 1..NumItems}
    /\ runs = <<>>
    /\ runobj = <<>>
    /\ active_runs = {}
    /\ active_run_count = 0
    /\ tasks = [h \in Handlers |-> IdleTask]
    /\ now = 0
    /\ rate_limit_hosts = [host \in Hosts |-> [kind |-> "unset", at |-> 0]]
    /\ next_queue_id = NumItems + 1
    /\ topic_result = {}
    /\ response = NoResponse
    /\ dry_run = FALSE
    /\ PublisherInit(NonRateLimiter, "skip", "salsa.debian.org/team/")
    /\ ReconcilerInit(<<>>)

RequestRunIds == KnownRunIds \cup {UnknownRunId}
RequestQueueIds == 1..(next_queue_id - 1)

AssignActions ==
    \/ \E h \in Handlers : HandleAssign(h)
    \/ \E h \in Handlers : AssignScan(h)
    \/ \E h \in Handlers : AssignReturn(h)

FinishActions ==
    \/ \E h \in Handlers, run_id \in KnownRunIds, shape \in WorkerResultShapes \cup {NoResult},
          q \in RequestQueueIds :
          HandleFinish(h, run_id, IF shape.present THEN WithQueueId(shape, q) ELSE NoResult)
    \/ \E h \in Handlers : FinishItem(h)
    \/ \E h \in Handlers : FinishRun(h)
    \/ \E h \in Handlers : FollowupRun(h)

FindActions ==
    \/ \E h \in Handlers, kind \in {"log-index", "kill"}, run_id \in RequestRunIds,
          q \in RequestQueueIds \cup {0} :
          HandleFindActiveRun(h, kind, run_id, q)
    \/ \E h \in Handlers : FindActiveRunResume(h)

KeepaliveActions ==
    \/ \E run_id \in RequestRunIds : HandleKeepalive(run_id)
    \/ \E run_id \in RequestRunIds : HandleUploadLog(run_id)

ClockActions ==
    \/ \E id \in 1..MaxRuns : Watchdog(id)
    \/ Tick

Next ==
    \/ AssignActions
    \/ FinishActions
    \/ FindActions
    \/ KeepaliveActions
    \/ ClockActions
    \/ Deliver

\* The runner with every route and the clock.
Spec == Init /\ [][Next]_vars

\* The same runner with the traffic restricted to the routes a property is
\* about; each restriction keeps Init and the actions unchanged.
\* The runner serving /assign only, with the watchdogs of the runs it assigns.
NextAssign == AssignActions \/ ClockActions \/ Deliver
SpecAssign == Init /\ [][NextAssign]_vars

\* /assign and /finish: the routes that write the queue and run tables.
NextFinish == AssignActions \/ FinishActions \/ Deliver
SpecFinish == Init /\ [][NextFinish]_vars

\* /assign with /log and /kill: the routes that register active runs.
NextFind == AssignActions \/ FindActions \/ Deliver
SpecFind == Init /\ [][NextFind]_vars

\* /assign, the keepalive routes and the clock: the life of a watchdog.
NextWatchdog == AssignActions \/ KeepaliveActions \/ ClockActions \/ Deliver
SpecWatchdog == Init /\ [][NextWatchdog]_vars

\* The life of a watchdog with the /finish that ends it: /assign, the
\* keepalive routes, the clock, and /finish with the result of a worker
\* whose build failed.
NextLive ==
    \/ AssignActions
    \/ KeepaliveActions
    \/ ClockActions
    \/ \E h \in Handlers, run_id \in KnownRunIds, q \in RequestQueueIds,
          shape \in {x \in WorkerResultShapes :
                        x.code = "build-failed" /\ ~x.base_none} :
          HandleFinish(h, run_id, WithQueueId(shape, q))
    \/ \E h \in Handlers : FinishItem(h)
    \/ \E h \in Handlers : FinishRun(h)
    \/ Deliver
SpecLive == Init /\ [][NextLive]_vars

\* A queue whose head is on a host that was on alioth, followed by one row on
\* salsa: the first n rows are in bucket 0.
AliothRow(i, n) ==
    [cls |-> "QueueItem", id |-> i, package |-> i, suite |-> "lintian-fixes",
     bucket |-> IF i <= n THEN 0 ELSE 1,
     branch_url |-> IF i <= n THEN "anonscm.debian.org" ELSE "salsa.debian.org"]

InitBackoff ==
    /\ \E n \in (NumAliothRows - 1)..NumAliothRows :
          queue = {AliothRow(i, n) : i \in 1..(n + 1)}
    /\ runs = <<>>
    /\ runobj = <<>>
    /\ active_runs = {}
    /\ active_run_count = 0
    /\ tasks = [h \in Handlers |-> IdleTask]
    /\ now = 0
    /\ rate_limit_hosts = [host \in Hosts |-> [kind |-> "unset", at |-> 0]]
    /\ next_queue_id = NumAliothRows + 2
    /\ topic_result = {}
    /\ response = NoResponse
    /\ dry_run = FALSE
    /\ PublisherInit(NonRateLimiter, "skip", "salsa.debian.org/team/")
    /\ ReconcilerInit(<<>>)

\* /assign with the finish_run of its aborts and a clock of backoff steps.
NextBackoff ==
    \/ AssignActions
    \/ \E h \in Handlers : FinishRun(h)
    \/ Elapse
    \/ Deliver
SpecBackoff == InitBackoff /\ [][NextBackoff]_vars

\* A queue of three rows whose last row has no branch_url.
InitNoVcs ==
    /\ queue = {InitialRow(i) : i \in 1..NumNoVcsRows}
    /\ runs = <<>>
    /\ runobj = <<>>
    /\ active_runs = {}
    /\ active_run_count = 0
    /\ tasks = [h \in Handlers |-> IdleTask]
    /\ now = 0
    /\ rate_limit_hosts = [host \in Hosts |-> [kind |-> "unset", at |-> 0]]
    /\ next_queue_id = NumNoVcsRows + 1
    /\ topic_result = {}
    /\ response = NoResponse
    /\ dry_run = FALSE
    /\ PublisherInit(NonRateLimiter, "skip", "salsa.debian.org/team/")
    /\ ReconcilerInit(<<>>)

SpecNoVcs == InitNoVcs /\ [][NextAssign]_vars

\* The publisher: the periodic pass and the runner listener calling
\* publish_from_policy, and the reconciler installing counts.
InitPublish ==
    /\ queue = {InitialRow(i) : i \in 1..NumItems}
    /\ runs = <<>>
    /\ runobj = <<>>
    /\ active_runs = {}
    /\ active_run_count = 0
    /\ tasks = [h \in Handlers |-> IdleTask]
    /\ now = 0
    /\ rate_limit_hosts = [host \in Hosts |-> [kind |-> "unset", at |-> 0]]
    /\ next_queue_id = NumItems + 1
    /\ topic_result = {}
    /\ response = NoResponse
    /\ dry_run = FALSE
    /\ \E limiter \in RateLimiters, mode \in SUPPORTED_MODES,
          main_branch_url \in MainBranchUrls :
          PublisherInit(limiter, mode, main_branch_url)
    /\ ReconcilerInit(<<>>)

NextPublish ==
    \/ \E p \in Publishers : PublishFromPolicy(p)
    \/ \E p \in Publishers : PublishDecide(p)
    \/ \E p \in Publishers, stdout \in PublishOneOutcomes(MODE_ATTEMPT_PUSH) :
          PublishOne(p, TRUE, IF stdout = "PublishFailure" THEN 1 ELSE 0,
                     IF stdout = "PublishFailure" THEN "failure" ELSE stdout)
    \/ \E p \in Publishers : StorePublish(p)
    \/ \E open \in 0..MaxCount, merged \in 0..MaxCount : CheckExisting(open, merged)
    \/ PublishReturned
SpecPublish == InitPublish /\ [][NextPublish]_vars

\* The reconciler alone: process_queue_loop with auto_publish off, over one or
\* two merge proposals.
InitReconcile ==
    /\ queue = {InitialRow(i) : i \in 1..NumItems}
    /\ runs = <<>>
    /\ runobj = <<>>
    /\ active_runs = {}
    /\ active_run_count = 0
    /\ tasks = [h \in Handlers |-> IdleTask]
    /\ now = 0
    /\ rate_limit_hosts = [host \in Hosts |-> [kind |-> "unset", at |-> 0]]
    /\ next_queue_id = NumItems + 1
    /\ topic_result = {}
    /\ response = NoResponse
    /\ dry_run = FALSE
    /\ PublisherInit(SlowStartRateLimiter(0), MODE_PROPOSE, "salsa.debian.org/team/")
    /\ \E n \in 1..MaxProposals : \E mps \in [1..n -> ProposalShapes] :
          ReconcilerInit(mps)

NextReconcile ==
    \/ CheckExistingBegin
    \/ \E returncode \in ReturnCodes, stdout \in Stdouts :
          CheckExistingProposal(returncode, stdout)
    \/ CheckExistingEnd
SpecReconcile == InitReconcile /\ [][NextReconcile]_vars

\* publish_from_policy without rate limiter, with every exit status and output
\* of the publish subprocess.
InitPublishOne ==
    /\ queue = {InitialRow(i) : i \in 1..NumItems}
    /\ runs = <<>>
    /\ runobj = <<>>
    /\ active_runs = {}
    /\ active_run_count = 0
    /\ tasks = [h \in Handlers |-> IdleTask]
    /\ now = 0
    /\ rate_limit_hosts = [host \in Hosts |-> [kind |-> "unset", at |-> 0]]
    /\ next_queue_id = NumItems + 1
    /\ topic_result = {}
    /\ response = NoResponse
    /\ dry_run = FALSE
    /\ \E mode \in SUPPORTED_MODES, main_branch_url \in MainBranchUrls :
          PublisherInit(NonRateLimiter, mode, main_branch_url)
    /\ ReconcilerInit(<<>>)

NextPublishOne ==
    \/ \E p \in Publishers : PublishFromPolicy(p)
    \/ \E p \in Publishers : PublishDecide(p)
    \/ \E p \in Publishers, local_branch \in BOOLEAN, returncode \in ReturnCodes,
          stdout \in Stdouts :
          PublishOne(p, local_branch, returncode, stdout)
    \/ \E p \in Publishers : StorePublish(p)
    \/ PublishReturned
SpecPublishOne == InitPublishOne /\ [][NextPublishOne]_vars

\* /assign and /finish over a queue that holds a row of package 1 and a
\* control row of the same package, with the run table as earlier control
\* runs of the package left it: empty, a success at rev0, a failure, or a
\* success at rev0 followed by a failure.
InitFollowup ==
    /\ queue = {InitialRow(1), ControlRow(2, 1, "salsa.debian.org")}
    /\ runs \in {<<>>,
                 <<PriorRun(1, 1, "success", "rev0")>>,
                 <<PriorRun(1, 1, "build-failed", NoRev)>>,
                 <<PriorRun(1, 1, "success", "rev0"),
                   PriorRun(2, 1, "build-failed", NoRev)>>}
    /\ runobj = <<>>
    /\ active_runs = {}
    /\ active_run_count = 0
    /\ tasks = [h \in Handlers |-> IdleTask]
    /\ now = 0
    /\ rate_limit_hosts = [host \in Hosts |-> [kind |-> "unset", at |-> 0]]
    /\ next_queue_id = NumItems + 1
    /\ topic_result = {}
    /\ response = NoResponse
    /\ dry_run = FALSE
    /\ PublisherInit(NonRateLimiter, "skip", "salsa.debian.org/team/")
    /\ ReconcilerInit(<<>>)

\* The workers report a success with or without main_branch_revision, or a
\* failure.
NextFollowup ==
    \/ AssignActions
    \/ \E h \in Handlers, run_id \in KnownRunIds, q \in RequestQueueIds,
          shape \in {x \in WorkerResultShapes : ~x.base_none} :
          HandleFinish(h, run_id, WithQueueId(shape, q))
    \/ \E h \in Handlers : FinishItem(h)
    \/ \E h \in Handlers : FinishRun(h)
    \/ \E h \in Handlers : FollowupRun(h)
    \/ Deliver
SpecFollowup == InitFollowup /\ [][NextFollowup]_vars

\* The queue processor started with --dry-run: /assign and /finish over the
\* queue of InitFollowup, the run table empty or holding a success of the
\* package at rev0.
InitDryRun ==
    /\ queue = {InitialRow(1), ControlRow(2, 1, "salsa.debian.org")}
    /\ runs \in {<<>>, <<PriorRun(1, 1, "success", "rev0")>>}
    /\ runobj = <<>>
    /\ active_runs = {}
    /\ active_run_count = 0
    /\ tasks = [h \in Handlers |-> IdleTask]
    /\ now = 0
    /\ rate_limit_hosts = [host \in Hosts |-> [kind |-> "unset", at |-> 0]]
    /\ next_queue_id = NumItems + 1
    /\ topic_result = {}
    /\ response = NoResponse
    /\ dry_run = TRUE
    /\ PublisherInit(NonRateLimiter, "skip", "salsa.debian.org/team/")
    /\ ReconcilerInit(<<>>)
SpecDryRun == InitDryRun /\ [][NextFollowup]_vars

\* Workers that take assignments and are never heard of again, with /log and
\* /kill requests and the clock.  The event loop is fair: a callback that is
\* ready again and again is run, a response is written, a timer that is due
\* fires and time goes on.
NextLifecycle == AssignActions \/ FindActions \/ ClockActions \/ Deliver

FairLoop ==
    /\ \A h \in Handlers :
          /\ SF_vars(AssignScan(h))
          /\ SF_vars(AssignReturn(h))
          /\ SF_vars(FindActiveRunResume(h))
    /\ \A id \in 1..MaxRuns : SF_vars(Watchdog(id))
    /\ SF_vars(Tick)
    /\ WF_vars(Deliver)

SpecLifecycle == Init /\ [][NextLifecycle]_vars /\ FairLoop

\* /assign, log uploads chunk by chunk, and the clock, for a queue of one
\* row.  The bodies are one chunk or two different chunks.
InitUpload ==
    /\ queue = {InitialRow(1)}
    /\ runs = <<>>
    /\ runobj = <<>>
    /\ active_runs = {}
    /\ active_run_count = 0
    /\ tasks = [h \in Handlers |-> IdleTask]
    /\ now = 0
    /\ rate_limit_hosts = [host \in Hosts |-> [kind |-> "unset", at |-> 0]]
    /\ next_queue_id = 2
    /\ topic_result = {}
    /\ response = NoResponse
    /\ dry_run = FALSE
    /\ PublisherInit(NonRateLimiter, "skip", "salsa.debian.org/team/")
    /\ ReconcilerInit(<<>>)

NextUpload ==
    \/ AssignActions
    \/ \E h \in Handlers, run_id \in RequestRunIds, logname \in LogNames,
          body \in {b \in Bodies : b \in {<<"a">>, <<"a", "b">>}} :
          UploadLogBegin(h, run_id, logname, body)
    \/ \E h \in Handlers : UploadLogChunk(h)
    \/ \E h \in Handlers : UploadLogEnd(h)
    \/ ClockActions
    \/ Deliver
SpecUpload == InitUpload /\ [][NextUpload]_vars

\* ---------------------------------------------------------- resume branch
\* The names open_resume_branch lists for a suite and a package, in order.
CandidateNames == <<"suite", "suite/main", "suite/main/package">>

\* get_hoster: the hoster of the main branch, or the exception it raises.
HosterOutcomes ==
    {"hoster", "UnsupportedHoster", "HosterLoginRequired",
     "SSLCertVerificationError", "ConnectionError"}

\* What listing the proposals of the hoster does.
ListOutcomes == {"ok", "NoSuchProject", "PermissionDenied", "UnusableRedirect"}

\* The hoster as open_resume_branch meets it: proposed holds the names under
\* which it has a proposed branch, and is left empty where the hoster cannot
\* be asked.
HosterStates ==
    { hs \in [outcome : HosterOutcomes, listing : ListOutcomes,
              proposed : SUBSET {CandidateNames[k] : k \in DOMAIN CandidateNames}] :
        /\ hs.outcome # "hoster" => hs.listing = "ok"
        /\ (hs.outcome # "hoster" \/ hs.listing # "ok") => hs.proposed = {} }

\* find_existing_proposed(main_branch, hoster, name): the proposed branch of
\* that name, if there is one.
FindExistingProposed(name, proposed) == IF name \in proposed THEN name ELSE "None"

\* The loop of open_resume_branch over the candidate names: every iteration
\* passes suite_name to find_existing_proposed, the loop variable is not used.
RECURSIVE ResumeLoop(_, _)
ResumeLoop(k, proposed) ==
    LET suite_name == CandidateNames[1]
        resume_branch == FindExistingProposed(suite_name, proposed)
    IN IF resume_branch # "None" \/ k = Len(CandidateNames)
       THEN resume_branch
       ELSE ResumeLoop(k + 1, proposed)

\* open_resume_branch: None when get_hoster or the listing raises one of the
\* exceptions it catches.
OpenResumeBranch(hoster) ==
    IF hoster.outcome # "hoster" \/ hoster.listing # "ok"
    THEN "None"
    ELSE ResumeLoop(1, hoster.proposed)

\* public_vcs_manager.get_branch(package, suite/main, vcs_type).
CacheOutcomes == {"branch", "None", "UnsupportedVcs"}

\* The vcs types of a main branch: the cache has base URLs for git and bzr.
VcsTypes == {"git", "hg"}

\* public_vcs_manager.get_branch_url with UnsupportedVcs caught.
CachedBranchUrl(vcs_type) == IF vcs_type = "git" THEN "cached_url" ELSE "None"

\* The rows of the run table check_resume_result selects from.
ResumeRows(table, suite, head) ==
    {k \in DOMAIN table :
        /\ table[k].suite = suite
        /\ table[k].revision = head
        /\ table[k].result_code = "success"}

\* A check that hands out the resume branch of a rejected run.
CheckResumeResultIgnoresReview(table, k, resume_branch, head) ==
    IF k = 0
    THEN [branch |-> "None", head |-> "None", result |-> 0]
    ELSE [branch |-> resume_branch, head |-> head, result |-> table[k].id]

\* resume is None.
NoResume == [branch |-> "None", head |-> "None", result |-> 0]

\* check_resume_result on the row fetchrow returned (k = 0: no row).
CheckResumeResult(table, k, resume_branch, head) ==
    IF k = 0 \/ table[k].review_status = "rejected"
    THEN NoResume
    ELSE [branch |-> resume_branch, head |-> head, result |-> table[k].id]

\* A queue row with its refresh column.
ResumeRow(i, refresh) ==
    [cls |-> "QueueItem", id |-> i, package |-> i, suite |-> "lintian-fixes",
     bucket |-> IF i = 2 THEN 0 ELSE 1, branch_url |-> "salsa.debian.org",
     refresh |-> refresh]

\* A run of an earlier session with its review status.
ReviewedRun(k, suite, result_code, revision, review_status) ==
    [id |-> 0 - k, package |-> 1, suite |-> suite, result_code |-> result_code,
     revision |-> revision, review_status |-> review_status]

\* The heads a resume branch may have.
Heads == {"rev1", "rev2"}

\* What the handler may raise once it holds a ResumeInfo: the AssertionError
\* for an authenticated branch URL, or the AttributeError of ResumeInfo.json
\* for a result branch without base revision.
ResumeErrors == {"", "AssertionError", "AttributeError"}

\* handle_assign from register_run to the resume branch: the main branch,
\* the except clauses, open_resume_branch and the fall back to the cache.
\* The task keeps what it found for the check that follows.
AssignOpenBranches(h, outcome, guessed, retry_after, vcs_type, hoster, cache) ==
    /\ Ready
    /\ tasks[h].pc = "a_open"
    /\ LET t == tasks[h]
           e == OpenBranchWithFallback(t.item.branch_url, outcome, retry_after, guessed)
           opened == e.exc = ""
           hoster_branch == IF opened /\ ~t.item.refresh
                            THEN OpenResumeBranch(hoster) ELSE "None"
           ask_cache == hoster_branch = "None" /\ ~t.item.refresh
           resume_branch == IF hoster_branch # "None" THEN hoster_branch
                            ELSE IF ask_cache /\ cache = "branch" THEN "cache"
                            ELSE "None"
       IN IF e.exc = "BranchRateLimited"
          THEN /\ rate_limit_hosts' =
                     RateLimited(rate_limit_hosts, t.item.branch_url, e.retry_after)
               /\ Suspend(h, [t EXCEPT !.pc = "fr_call", !.ret = "assign-429",
                     !.branch_error = e.code, !.retry_after = e.retry_after,
                     !.result = CreateResult(runobj[t.run_id], "pull-rate-limited")])
          ELSE /\ UNCHANGED rate_limit_hosts
               /\ IF ask_cache /\ cache = "UnsupportedVcs"
                  THEN Raise(h, t)
                  ELSE Suspend(h,
                          [kind |-> t.kind, pc |-> "a_check", run_id |-> t.run_id,
                           item |-> t.item, listing |-> t.listing, wr |-> t.wr,
                           found |-> t.found, result |-> t.result, ret |-> t.ret,
                           branch_error |-> e.code, retry_after |-> e.retry_after,
                           opened |-> opened, vcs_type |-> vcs_type,
                           hoster |-> hoster, hoster_branch |-> hoster_branch,
                           resume_branch |-> resume_branch])
    /\ UNCHANGED <<queue, runs, runobj, active_runs, active_run_count, now, next_queue_id,
                   topic_result, dry_run>>
    /\ UNCHANGED pubvars

\* The assignment document, with what it was computed from.
Assignment(t, resume) ==
    [kind |-> t.kind, status |-> 201, run_id |-> t.run_id, queue_id |-> t.item.id,
     found |-> t.found, branch_error |-> t.branch_error, retry_after |-> 0,
     refresh |-> t.item.refresh, resume_branch |-> t.resume_branch,
     resume |-> resume, cached_url |-> CachedBranchUrl(t.vcs_type)]

\* handle_assign from the resume branch to the response: check_resume_result
\* on the row fetchrow returns, the cache URL, the assignment document,
\* start_watchdog and the 201.
AssignCheckResume(h, head, k, error) ==
    /\ Ready
    /\ tasks[h].pc = "a_check"
    /\ LET t == tasks[h]
           rows == IF t.resume_branch = "None" THEN {}
                   ELSE ResumeRows(runs, t.item.suite, head)
           resume == CheckResumeResult(runs, k, t.resume_branch, head)
       IN /\ IF rows = {} THEN k = 0 ELSE k \in rows
          /\ resume = NoResume => error = ""
          /\ IF error # ""
             THEN /\ Raise(h, t)
                  /\ UNCHANGED runobj
             ELSE /\ runobj' = [runobj EXCEPT ![t.run_id] =
                        [StartWatchdog(@) EXCEPT !.returned = TRUE]]
                  /\ tasks' = [tasks EXCEPT ![h] = IdleTask]
                  /\ response' = Assignment(t, resume)
    /\ UNCHANGED <<queue, runs, active_runs, active_run_count, now, rate_limit_hosts, next_queue_id,
                   topic_result, dry_run>>
    /\ UNCHANGED pubvars

\* /assign alone, with the queue rows' refresh column, a run table that holds
\* earlier runs of the suite, and main branches that open or fail to open.
InitResume ==
    /\ \E r1, r2 \in BOOLEAN : queue = {ResumeRow(1, r1), ResumeRow(2, r2)}
    /\ \E table \in
          {<<>>,
           <<ReviewedRun(1, "lintian-fixes", "success", "rev1", "approved")>>,
           <<ReviewedRun(1, "lintian-fixes", "success", "rev1", "rejected")>>,
           <<ReviewedRun(1, "lintian-fixes", "success", "rev1", "rejected"),
             ReviewedRun(2, "lintian-fixes", "success", "rev1", "unreviewed")>>,
           <<ReviewedRun(1, "lintian-fixes", "build-failed", "rev1", "unreviewed"),
             ReviewedRun(2, "unchanged", "success", "rev2", "approved")>>} :
          runs = table
    /\ runobj = <<>>
    /\ active_runs = {}
    /\ active_run_count = 0
    /\ tasks = [h \in Handlers |-> IdleTask]
    /\ now = 0
    /\ rate_limit_hosts = [host \in Hosts |-> [kind |-> "unset", at |-> 0]]
    /\ next_queue_id = NumItems + 1
    /\ topic_result = {}
    /\ response = NoResponse
    /\ dry_run = FALSE
    /\ PublisherInit(NonRateLimiter, "skip", "salsa.debian.org/team/")
    /\ ReconcilerInit(<<>>)

NextResume ==
    \/ \E h \in Handlers : HandleAssign(h)
    \/ \E h \in Handlers : AssignScan(h)
    \/ \E h \in Handlers, outcome \in {"branch", "BranchMissing"},
          vcs_type \in VcsTypes, hoster \in HosterStates, cache \in CacheOutcomes :
          AssignOpenBranches(h, outcome, "None", 0, vcs_type, hoster, cache)
    \/ \E h \in Handlers, head \in Heads, k \in 0..MaxRunRows, error \in ResumeErrors :
          AssignCheckResume(h, head, k, error)
    \/ Deliver
SpecResume == InitResume /\ [][NextResume]_vars

\* ================================================================= claims
\* C1: whatever the interleaving of /assign requests, no two assignments
\* returned with 201 name the same queue item.
C1_ExactlyOneAssignment ==
    \A a, b \in DOMAIN runobj :
        (a # b /\ runobj[a].returned /\ runobj[b].returned)
            => runobj[a].queue_item.id # runobj[b].queue_item.id

\* A second /assign answers 201 after another one did.
C1_Witness ==
    /\ response.kind = "assign"
    /\ response.status = 201
    /\ \E b \in DOMAIN runobj : b # response.run_id /\ runobj[b].returned

\* C2: the registry holds at most one active run per queue item id.
C2_OneActiveRunPerQueueItem ==
    \A a, b \in active_runs :
        a # b => runobj[a].queue_item.id # runobj[b].queue_item.id

\* C3: when /finish answers 201 and the runner is not in dry-run, the run
\* table has a row with the run id and the queue table has no row with the
\* queue item's id.
C3_AtomicFinish ==
    (response.kind = "finish" /\ response.status = 201 /\ ~dry_run)
        => /\ \E k \in DOMAIN runs : runs[k].id = response.run_id
           /\ ~QueueRowExists(response.queue_id)

\* /finish answers 201 for a run the registry knew.
C3_Witness ==
    /\ response.kind = "finish"
    /\ response.status = 201
    /\ response.found
    /\ ~dry_run

\* C4: a step that removes a queue row is a step that appends the run row of
\* that item to the run table: the delete commits with the insert or not at
\* all.
C4_DeleteOnlyWithRun ==
    [][\A row \in queue \ queue' :
          /\ Len(runs') = Len(runs) + 1
          /\ runs'[Len(runs')].package = row.package
          /\ runs'[Len(runs')].suite = row.suite]_vars

\* A queue row the runner started with is gone and a run of its package is
\* stored.
C4_Witness ==
    \E i \in 1..NumItems :
        /\ ~QueueRowExists(i)
        /\ \E k \in DOMAIN runs : runs[k].package = InitialRow(i).package

\* C5: once finish_run has deleted the row of a queue item, no /assign
\* returns an assignment for it: an assignment answered with 201 names a
\* queue item whose row is still in the queue table.
C5_ConsumedOnce ==
    (response.kind = "assign" /\ response.status = 201)
        => QueueRowExists(response.queue_id)

\* C6: when the /finish handler ends with an exception instead of the 201,
\* the queue row of its item still exists.
C6_QueueRowSurvivesFailure ==
    (response.kind = "finish" /\ response.status = 500)
        => QueueRowExists(response.queue_id)

\* C7: three keepalive intervals after the last keepalive of a run whose
\* watchdog /assign started and no /finish stopped, once the wake-up due at
\* that instant has run, a worker-timeout run is stored for the log id, the
\* queue row is gone, the registry entry is gone and the result event is
\* published.
C7_WatchdogBound ==
    \A id \in DOMAIN runobj :
        LET run == runobj[id]
        IN (/\ run.returned
            /\ run.watch_dog # "none"
            /\ now - run.last_keepalive >= 3 * KEEPALIVE_INTERVAL
            /\ ~(run.watch_dog = "sleeping" /\ run.wake_at <= now))
               => /\ \E k \in DOMAIN runs :
                        runs[k].id = id /\ runs[k].result_code = "worker-timeout"
                  /\ ~QueueRowExists(run.queue_item.id)
                  /\ id \notin active_runs
                  /\ [log_id |-> id, code |-> "worker-timeout"] \in topic_result

\* C8: the run table never holds two rows with the same run id.
C8_OneRunRowPerRunId ==
    \A i, j \in DOMAIN runs : i # j => runs[i].id # runs[j].id

\* C9: a /finish for a run id the registry does not know is not refused for
\* that: it waits for get_queue_item; when the queue id of its result.json
\* has a row, the handler goes on to finish_run with that row and a result
\* for the run id; when it has none, the answer is 404 and neither table
\* changes.
C9_FinishToleratesReapedRun ==
    [][\A h \in Handlers :
          /\ (tasks[h].kind = "idle" /\ tasks'[h].kind = "finish" /\ ~tasks'[h].found)
                => tasks'[h].pc = "f_item"
          /\ (tasks[h].pc = "f_item" /\ tasks'[h] # tasks[h])
                => IF QueueRowExists(tasks[h].wr.queue_id)
                   THEN /\ tasks'[h].pc = "fr_call"
                        /\ tasks'[h].item \in queue
                        /\ tasks'[h].item.id = tasks[h].wr.queue_id
                        /\ tasks'[h].result.log_id = tasks[h].run_id
                        /\ Ready'
                   ELSE /\ response'.kind = "finish"
                        /\ response'.status = 404
                        /\ runs' = runs
                        /\ queue' = queue]_vars

\* /finish answers 201 for a run id the registry did not know.
C9_Witness ==
    /\ response.kind = "finish"
    /\ response.status = 201
    /\ ~response.found

\* C10: a keepalive for a registered run id answers 200 and leaves the run's
\* last_keepalive at the current time; for any other id it answers 404.
C10_KeepaliveResets ==
    response.kind = "keepalive"
        => IF response.found
           THEN /\ response.status = 200
                /\ runobj[response.run_id].last_keepalive = now
           ELSE response.status = 404

\* C11: when the backoff of a host is recorded at time t with retry-after T
\* (120 seconds when T is missing) the stored deadline is t + T; the scan of
\* next_queue_item never raises, never selects an item of a host whose
\* deadline is still ahead, and answers "queue empty" only when every row it
\* was given is assigned or on a host whose deadline is still ahead (a host
\* is eligible again once its deadline has passed).
C11_HostBackoff ==
    [][\A h \in Handlers :
          /\ (tasks[h].pc = "a_open" /\ tasks'[h].ret = "assign-429")
                => rate_limit_hosts'[tasks[h].item.branch_url] =
                      [kind |-> "datetime",
                       at |-> now + (IF tasks'[h].retry_after = 0
                                     THEN DEFAULT_RETRY_AFTER
                                     ELSE tasks'[h].retry_after)]
          /\ (tasks[h].pc = "a_scan" /\ tasks'[h] # tasks[h])
                => /\ response'.status # 500
                   /\ tasks'[h].pc = "a_open"
                         => rate_limit_hosts[tasks'[h].item.branch_url].at <= now
                   /\ response'.status = 503
                         => \A i \in DOMAIN tasks[h].listing :
                               \/ IsQueueItemAssigned(tasks[h].listing[i].id)
                               \/ rate_limit_hosts[tasks[h].listing[i].branch_url].at > now]_vars

\* C12: an /assign whose main-branch open fails with too-many-requests (and
\* that no other exception ends) answers 429, not 201, with the backoff of
\* the item's host recorded and a Retry-After header of the hoster's value or
\* the default.
C12_RateLimitedAssignAnswers429 ==
    (/\ response.kind = "assign"
     /\ response.branch_error \in {"too-many-requests", "BranchRateLimited"}
     /\ response.status # 500)
        => /\ response.status = 429
           /\ rate_limit_hosts[runobj[response.run_id].queue_item.branch_url].kind # "unset"
           /\ response.retry_after \in (RetryAfters \ {0}) \cup {DEFAULT_RETRY_AFTER}

\* C13: after the 429 of an assignment aborted with pull-rate-limited, the
\* queue row of its item still exists and the run table has no row for the
\* aborted run.
C13_RateLimitAbortNotStored ==
    (response.kind = "assign" /\ response.status = 429)
        => /\ QueueRowExists(response.queue_id)
           /\ \A k \in DOMAIN runs : runs[k].id # response.run_id

\* A row the claim counts as eligible: no active run references it and its
\* branch_url host (if it has one) has no backoff deadline ahead.
Eligible(row) ==
    /\ ~IsQueueItemAssigned(row.id)
    /\ row.branch_url # NoUrl => rate_limit_hosts[row.branch_url].at <= now

\* C14: next_queue_item is given the first len(active_runs) + 3 rows of the
\* queue in priority order; it returns the first of them that is eligible,
\* and none exactly when none of them is.
C14_NextQueueItemFirstEligible ==
    [][\A h \in Handlers :
          /\ (tasks[h].kind = "idle" /\ tasks'[h].kind = "assign")
                => tasks'[h].listing =
                      IterQueue(queue, Cardinality(active_runs) + 3)
          /\ (tasks[h].pc = "a_scan" /\ tasks'[h] # tasks[h])
                => LET listing == tasks[h].listing
                       good == {i \in DOMAIN listing : Eligible(listing[i])}
                   IN IF good = {}
                      THEN response'.kind = "assign" /\ response'.status = 503
                      ELSE /\ Ready'
                           /\ tasks'[h].item =
                                 listing[CHOOSE i \in good : \A j \in good : i <= j]]_vars

C16_PublishIdempotence ==
    [][\A p \in Publishers :
          /\ (/\ ptasks[p].pc = "idle"
              /\ ptasks'[p].pc = "pp_published"
              /\ \E i \in DOMAIN publish : publish[i].code = "success")
                => ptasks'[p].published
          /\ (ptasks[p].pc = "pp_published" /\ ptasks[p].published
                 /\ ptasks'[p] # ptasks[p])
                => /\ ptasks'[p].pc = "idle"
                   /\ ~preturn'.invoked
                   /\ publish' = publish]_vars

\* C17: under MaintainerRateLimiter(N) with the counts loaded and N or more
\* proposals open, a publish_from_policy call in mode propose that got past
\* already_published increments proposal_rate_limited, does not start the
\* publish subprocess, and returns only after storing a publish row with mode
\* build-only.
C17_RateLimitDegradation ==
    [][\A p \in Publishers :
          (/\ ptasks[p].pc = "pp_published"
           /\ ~ptasks[p].published
           /\ ptasks[p].mode = MODE_PROPOSE
           /\ rate_limiter.cls = "MaintainerRateLimiter"
           /\ rate_limiter.open # NoCounts
           /\ rate_limiter.open >= rate_limiter.max
           /\ ptasks'[p] # ptasks[p])
             => /\ proposal_rate_limited' = proposal_rate_limited + 1
                /\ ptasks'[p].pc # "pp_publish_one"
                /\ ptasks'[p].pc = "idle"
                      => /\ preturn'.stored
                         /\ publish' # <<>>
                         /\ publish'[Len(publish')].mode = MODE_BUILD_ONLY]_vars

\* C18: with N > 0 and the open counts loaded,
\* MaintainerRateLimiter.check_allowed raises RateLimited exactly when the
\* maintainer's open count is N or more, and no publish_from_policy call
\* raises the open count above N.
C18_MaintainerCap ==
    [][(/\ rate_limiter.cls = "MaintainerRateLimiter"
        /\ rate_limiter.max > 0
        /\ rate_limiter.open # NoCounts)
          => /\ (MaintainerCheckAllowed(rate_limiter) = "RateLimited")
                   <=> (rate_limiter.open >= rate_limiter.max)
             /\ (\E p \in Publishers :
                    ptasks[p].pc = "pp_publish_one" /\ ptasks'[p].pc = "pp_store")
                   => rate_limiter'.open <= rate_limiter.max]_vars

\* C19 (as the code has it): under SlowStartRateLimiter(N) with both counts
\* loaded, check_allowed raises RateLimited exactly when N is not 0 and
\* open >= N, or open > merged + 1; N = 0 sets no absolute cap.
C19_SlowStartTrust ==
    (/\ rate_limiter.cls = "SlowStartRateLimiter"
     /\ rate_limiter.open # NoCounts
     /\ rate_limiter.merged # NoCounts)
        => ((SlowStartCheckAllowed(rate_limiter) = "RateLimited")
               <=> \/ rate_limiter.max # 0 /\ rate_limiter.open >= rate_limiter.max
                   \/ rate_limiter.open > rate_limiter.merged + 1)

\* A propose call was refused by a slow start without absolute cap because
\* the maintainer has more than merged + 1 proposals open.
C19_Witness ==
    /\ preturn.limited
    /\ rate_limiter.cls = "SlowStartRateLimiter"
    /\ rate_limiter.max = 0
    /\ rate_limiter.merged # NoCounts
    /\ rate_limiter.open > rate_limiter.merged + 1

\* C19 (as stated): for every N, the default 0 included, check_allowed raises
\* RateLimited exactly when open >= N or open > merged + 1.
C19_SlowStartEveryN ==
    (/\ rate_limiter.cls = "SlowStartRateLimiter"
     /\ rate_limiter.open # NoCounts
     /\ rate_limiter.merged # NoCounts)
        => ((SlowStartCheckAllowed(rate_limiter) = "RateLimited")
               <=> \/ rate_limiter.open >= rate_limiter.max
                   \/ rate_limiter.open > rate_limiter.merged + 1)

\* C20: while a SlowStartRateLimiter has no counts installed, check_allowed
\* raises RateLimited, and no publish_from_policy call in mode propose or
\* attempt-push has started the publish subprocess or stored a row.
C20_SlowStartDeniesUntilLoaded ==
    (/\ rate_limiter.cls = "SlowStartRateLimiter"
     /\ rate_limiter.open = NoCounts)
        => /\ SlowStartCheckAllowed(rate_limiter) = "RateLimited"
           /\ \A p \in Publishers :
                 ptasks[p].mode_in \in {MODE_PROPOSE, MODE_ATTEMPT_PUSH}
                    => ~ptasks[p].invoked
           /\ preturn.mode_in \in {MODE_PROPOSE, MODE_ATTEMPT_PUSH}
                 => ~preturn.invoked /\ ~preturn.stored
           /\ policy.mode \in {MODE_PROPOSE, MODE_ATTEMPT_PUSH} => publish = <<>>

\* A call in mode propose or attempt-push has returned, refused, before the
\* first counts were installed.
C20_Witness ==
    /\ rate_limiter.cls = "SlowStartRateLimiter"
    /\ rate_limiter.open = NoCounts
    /\ preturn.mode_in \in {MODE_PROPOSE, MODE_ATTEMPT_PUSH}
    /\ preturn.limited

\* The events on the merge-proposal topic that report proposal i closed.
ClosedEvents(events, i) ==
    Cardinality({k \in DOMAIN events : events[k] = MergeProposalEvent(i, "closed")})

\* C21: the iteration of check_existing over an open proposal whose
\* originating run is known and whose (package, suite) has no last unabsorbed
\* run stores the status closed, publishes one closed event for it and calls
\* mp.close() once; no other step calls mp.close(), and over all passes no
\* proposal is closed twice.
C21_ReconcilerClosure ==
    [][\A i \in DOMAIN proposals :
          LET mp == proposals[i]
              after == proposals'[i]
              visited == /\ reconciler.pc = "loop"
                         /\ reconciler.i = i
                         /\ reconciler'.i = i + 1
              eligible == mp.status = "open" /\ mp.mp_run /\ mp.last_run = "None"
          IN /\ (visited /\ eligible)
                   => /\ after.closed = mp.closed + 1
                      /\ after.stored = "closed"
                      /\ ClosedEvents(topic_merge_proposal', i) =
                            ClosedEvents(topic_merge_proposal, i) + 1
                      /\ topic_merge_proposal'[Len(topic_merge_proposal')] =
                            MergeProposalEvent(i, "closed")
             /\ ~(visited /\ eligible) => after.closed = mp.closed
             /\ after.closed <= 1]_vars

\* Every pass is over and a proposal was closed, once, with the status
\* closed stored and its closed event on the topic.
C21_Witness ==
    /\ reconciler.pc = "idle"
    /\ reconciler.passes = MaxPasses
    /\ \E i \in DOMAIN proposals :
          /\ proposals[i].closed = 1
          /\ proposals[i].stored = "closed"
          /\ ClosedEvents(topic_merge_proposal, i) = 1

\* What the claim expects of one publish_one call that started the
\* subprocess.
MapsAsDocumented(sub) ==
    IF sub.stdout = "malformed" \/ sub.returncode \notin {0, 1}
    THEN sub.exc = "PublishFailure" /\ sub.code = "publisher-invalid-response"
    ELSE IF sub.returncode = 0 THEN sub.exc = ""
    ELSE /\ sub.exc = "PublishFailure"
         /\ sub.stdout = "failure" => sub.code = SubprocessCode

\* C22: publish_one maps exit code 0 to a return, exit code 1 with a JSON body
\* to a PublishFailure with the subprocess's code, any other exit code and
\* malformed output under any exit code to a PublishFailure with code
\* publisher-invalid-response, and lets no other exception escape.
C22_PublishOneMapping ==
    /\ \A p \in Publishers :
          (ptasks[p].sub.stdout # "" /\ ptasks[p].sub.local_branch)
             => MapsAsDocumented(ptasks[p].sub)
    /\ (preturn.sub.stdout # "" /\ preturn.sub.local_branch)
          => MapsAsDocumented(preturn.sub)

\* C23: whatever followup_run does for the result of a /finish, the handler
\* that awaited finish_run answers 201 and the run is in the run table.
C23_FollowupNeverFailsFinish ==
    [][\A h \in Handlers :
          (tasks[h].pc = "fr_followup" /\ tasks[h].ret = "finish"
              /\ tasks'[h] # tasks[h])
             => /\ response'.kind = "finish"
                /\ response'.status = 201
                /\ \E k \in DOMAIN runs' : runs'[k].id = tasks[h].run_id]_vars

\* C24: a control run is added to the queue exactly by the follow-up of a
\* finish with result code success for a suite other than unchanged and
\* debianize, and exactly when the run table holds no earlier success run of
\* the package at the result's main_branch_revision.
C24_ControlRunScheduling ==
    [][/\ \A h \in Handlers :
             (/\ tasks[h].pc \in {"fr_call", "fr_followup"}
              /\ tasks[h].ret = "finish"
              /\ tasks'[h].pc = "idle"
              /\ response'.status # 500 \/ tasks[h].pc = "fr_followup")
                => LET t == tasks[h]
                       wanted ==
                          /\ t.result.code = "success"
                          /\ t.item.suite \notin {"unchanged", "debianize"}
                          /\ ~\E k \in DOMAIN runs :
                                 /\ runs[k].id # t.result.log_id
                                 /\ runs[k].package = t.item.package
                                 /\ runs[k].revision = t.result.main_branch_revision
                                 /\ runs[k].result_code = "success"
                   IN wanted <=> \E row \in queue' \ queue :
                                    /\ row.suite = "unchanged"
                                    /\ row.package = t.item.package
       /\ (queue' \ queue # {}) => \E h \in Handlers : tasks[h].pc = "fr_followup"]_vars

\* The clock of the model has reached its last step while the watchdog of
\* the run still sleeps.
ClockEnded(id) ==
    /\ now = MaxTicks * KEEPALIVE_INTERVAL
    /\ id \in DOMAIN runobj
    /\ runobj[id].watch_dog = "sleeping"
    /\ runobj[id].wake_at > now

\* C25: under a fair event loop every active run that is in the registry
\* leaves it again (within the clock steps modelled, unless its watchdog is
\* still waiting for a later one).
C25_ActiveRunLifecycle ==
    \A id \in 1..MaxRuns :
        (id \in active_runs) ~> (id \notin active_runs \/ ClockEnded(id))

\* C26: POST /kill/{id} for a run id the registry holds answers with a
\* successful response (the status document of the active run).
C26_KillReturnsStatus ==
    (response.kind = "kill" /\ response.found) => response.status = 200

\* C27: finish_run commits the run before it publishes the result event,
\* publishes before it drops the registry entry, and calls the follow-up
\* scheduler last.  A result event on the topic is the event of a committed
\* run row; a step publishes at most one event; a finish_run that gets past
\* the transaction has committed the row, published the event of its run and
\* dropped the run when it enters the follow-up scheduler or returns; the
\* registry loses a run only with its event published; the follow-up
\* scheduler adds its queue row only after all of that.
C27_FinishRunOrder ==
    [][/\ \A e \in topic_result' :
             \E k \in DOMAIN runs' : runs'[k].id = e.log_id
       /\ Cardinality(topic_result' \ topic_result) <= 1
       /\ \A h \in Handlers :
             (/\ tasks[h].pc = "fr_call"
              /\ \/ tasks'[h].pc = "fr_followup"
                 \/ tasks'[h].pc = "idle" /\ response'.status = 201)
                => /\ Len(runs') = Len(runs) + 1
                   /\ runs'[Len(runs')].id = tasks[h].result.log_id
                   /\ ~QueueRowExists(tasks[h].item.id)'
                   /\ [log_id |-> tasks[h].result.log_id,
                       code |-> tasks[h].result.code] \in topic_result'
                   /\ tasks[h].result.log_id \notin active_runs'
       /\ \A id \in active_runs \ active_runs' :
             \E e \in topic_result' : e.log_id = id
       /\ (queue' \ queue # {})
             => \E h \in Handlers :
                   /\ tasks[h].pc = "fr_followup"
                   /\ \E e \in topic_result : e.log_id = tasks[h].result.log_id
                   /\ tasks[h].result.log_id \notin active_runs]_vars

\* A finish_run has committed, published and dropped its run, and its
\* follow-up has added the control row to the queue.
C27_Witness ==
    /\ response.kind = "finish"
    /\ response.status = 201
    /\ \E e \in topic_result : e.log_id = response.run_id /\ e.code = "success"
    /\ \E k \in DOMAIN runs : runs[k].id = response.run_id
    /\ response.run_id \notin active_runs
    /\ \E row \in queue : row.suite = "unchanged"

\* /finish has found run id in the registry and called stop_watchdog on it.
FinishCalled(id) ==
    \/ id \notin active_runs
    \/ \E h \in Handlers :
          /\ tasks[h].pc # "idle"
          /\ tasks[h].kind = "finish"
          /\ tasks[h].run_id = id
          /\ tasks[h].found

\* The run rows a step adds for run id with the code of the watchdog.
TimeoutRows(id, before, after) ==
    {k \in DOMAIN after \ DOMAIN before :
        after[k].id = id /\ after[k].result_code = "worker-timeout"}

\* C28: the watchdog never times out a live run.  A watchdog wakes when its
\* sleep of KEEPALIVE_INTERVAL has ended and sleeps for another interval
\* unless now - last_keepalive is strictly greater than two intervals; only
\* then does it build the worker-timeout result and leave its loop.  No
\* worker-timeout row is stored for a run whose last_keepalive is at most two
\* intervals old, and once /finish has called stop_watchdog the watchdog of
\* that run neither wakes nor stores anything.
C28_WatchdogSparesLiveRuns ==
    [][\A id \in DOMAIN runobj :
          LET run == runobj[id]
              after == runobj'[id]
              woke == run.watch_dog = "sleeping" /\ after.watch_dog # "none"
                      /\ after # run /\ after.last_keepalive = run.last_keepalive
          IN /\ woke => /\ run.wake_at <= now
                        /\ now - run.wake_at < KEEPALIVE_INTERVAL
             /\ (woke /\ after.watch_dog = "sleeping")
                   => /\ now - run.last_keepalive <= 2 * KEEPALIVE_INTERVAL
                      /\ after.wake_at = now + KEEPALIVE_INTERVAL
             /\ (woke /\ after.watch_dog \in {"finished", "crashed"})
                   => now - run.last_keepalive > 2 * KEEPALIVE_INTERVAL
             /\ (after.watch_dog \in {"finished", "crashed"}
                 /\ run.watch_dog \notin {"finished", "crashed"}) => woke
             /\ TimeoutRows(id, runs, runs') # {}
                   => /\ woke
                      /\ now - run.last_keepalive > 2 * KEEPALIVE_INTERVAL
             /\ FinishCalled(id)
                   => /\ ~woke
                      /\ after.watch_dog = run.watch_dog
                      /\ after.wake_at = run.wake_at
                      /\ TimeoutRows(id, runs, runs') = {}]_vars

\* Two intervals after its last log chunk a run is found alive by its
\* watchdog, which goes back to sleep, while /finish has stopped the
\* watchdog of another run and stored that run with the worker's code.
C28_Witness ==
    \E id, other \in DOMAIN runobj :
       /\ id \in active_runs
       /\ runobj[id].last_keepalive = KEEPALIVE_INTERVAL
       /\ now = 3 * KEEPALIVE_INTERVAL
       /\ runobj[id].watch_dog = "sleeping"
       /\ runobj[id].wake_at = now + KEEPALIVE_INTERVAL
       /\ other \notin active_runs
       /\ runobj[other].watch_dog = "none"
       /\ \E k \in DOMAIN runs :
             runs[k].id = other /\ runs[k].result_code = "build-failed"

\* C29: when the item /assign selects has no branch_url, the handler finishes
\* it at once with result code not-in-vcs and answers no assignment for it.
\* A scan whose first unassigned, not rate-limited row has no branch_url
\* registers a run for that row and goes on to finish_run with a not-in-vcs
\* result, without a response; a scan ends with 503, with that abort, or with
\* an item that has a branch_url, and a 201 names an item with a branch_url.
C29_NotInVcsAbort ==
    [][/\ \A h \in Handlers :
             (tasks[h].pc = "a_scan" /\ tasks'[h] # tasks[h])
                => LET listing == tasks[h].listing
                       good == {i \in DOMAIN listing : Eligible(listing[i])}
                       first == CHOOSE i \in good : \A j \in good : i <= j
                   IN /\ (good # {} /\ listing[first].branch_url = NoUrl)
                         => /\ Ready'
                            /\ tasks'[h].pc = "fr_call"
                            /\ tasks'[h].item = listing[first]
                            /\ tasks'[h].result.code = "not-in-vcs"
                            /\ tasks'[h].run_id \in active_runs'
                      /\ \/ response'.kind = "assign" /\ response'.status = 503
                         \/ Ready' /\ tasks'[h].pc = "fr_call"
                         \/ /\ Ready'
                            /\ tasks'[h].pc = "a_open"
                            /\ tasks'[h].item.branch_url # NoUrl
       /\ (response'.kind = "assign" /\ response'.status = 201
           /\ response' # response)
             => runobj[response'.run_id].queue_item.branch_url # NoUrl]_vars

\* C30: a publish_from_policy call in mode attempt-push whose main branch
\* URL contains salsa.debian.org/debian/ is never executed as a push.  When
\* the rate limiter denies it the call returns without a subprocess and
\* without a publish row; else the subprocess is started in mode propose,
\* it does not report a push, and the publish row stored has mode propose.
C30_NeverPushToDebian ==
    [][(/\ policy.mode = MODE_ATTEMPT_PUSH
        /\ policy.main_branch_url = "salsa.debian.org/debian/")
          => /\ \A p \in Publishers :
                   /\ (/\ ptasks[p].pc = "pp_published"
                       /\ ~ptasks[p].published
                       /\ ptasks'[p] # ptasks[p])
                         => IF CheckAllowed(rate_limiter) = "RateLimited"
                            THEN /\ ptasks'[p].pc = "idle"
                                 /\ preturn'.limited
                                 /\ ~preturn'.invoked
                                 /\ ~preturn'.stored
                                 /\ publish' = publish
                            ELSE /\ ptasks'[p].pc = "pp_publish_one"
                                 /\ ptasks'[p].invoked
                                 /\ ptasks'[p].mode = MODE_PROPOSE
                   /\ (ptasks[p].pc = "pp_publish_one" /\ ptasks'[p] # ptasks[p])
                         => /\ ptasks[p].mode = MODE_PROPOSE
                            /\ ~ptasks[p].limited
                            /\ ptasks'[p].sub.stdout # "pushed"
                            /\ preturn'.sub.stdout # "pushed"
             /\ Len(publish') > Len(publish)
                   => publish'[Len(publish')].mode = MODE_PROPOSE]_vars

\* An attempt-push call for a repository under salsa.debian.org/debian/ has
\* opened a proposal and stored its row with mode propose, and a later call
\* was denied by the rate limiter.
C30_Witness ==
    /\ policy.mode = MODE_ATTEMPT_PUSH
    /\ policy.main_branch_url = "salsa.debian.org/debian/"
    /\ \E k \in DOMAIN publish :
          publish[k].mode = MODE_PROPOSE /\ publish[k].code = "success"
    /\ proposal_rate_limited > 0
    /\ preturn.mode_in = MODE_ATTEMPT_PUSH
    /\ preturn.limited
    /\ ~preturn.invoked

\* The proposal the reconciler's loop is at needs the update through
\* publish_one: it is open, its originating run is known, and the last
\* unabsorbed run of its package succeeded and is another run.
AtUpdate ==
    /\ reconciler.pc = "loop"
    /\ reconciler.i <= Len(proposals)
    /\ proposals[reconciler.i].status = "open"
    /\ proposals[reconciler.i].mp_run
    /\ proposals[reconciler.i].last_run = "newer"

\* C31: for an open proposal whose last unabsorbed run succeeded and is not
\* its originating run, check_existing calls publish_one in mode propose once
\* and stores exactly one publish row for the attempt, with mode propose; a
\* row that records a successful update is stored only for an attempt that
\* updated the existing proposal: an attempt that opened a new proposal ends
\* the pass with the assertion and leaves no success row.
C31_ReconcilerUpdate ==
    [][(AtUpdate /\ reconciler' # reconciler)
          => /\ Len(publish') = Len(publish) + 1
             /\ publish'[Len(publish')].mode = MODE_PROPOSE
             /\ publish'[Len(publish')].code = "success"
                   => reconciler'.pc = "loop"
             /\ reconciler'.pc = "crashed"
                   => publish'[Len(publish')].code # "success"]_vars

\* The first candidate name under which the hoster has a proposed branch.
FirstProposed(proposed) ==
    LET hits == {k \in DOMAIN CandidateNames : CandidateNames[k] \in proposed}
    IN IF hits = {} THEN "None"
       ELSE CandidateNames[CHOOSE k \in hits : \A j \in hits : k <= j]

\* C32: open_resume_branch returns the proposed branch of the first of the
\* names suite, suite/main, suite/main/<package> that has one, and none only
\* when none of the three has one or the hoster cannot be queried.
C32_OpenResumeBranch ==
    \A h \in Handlers :
       (tasks[h].pc = "a_check" /\ tasks[h].opened /\ ~tasks[h].item.refresh)
          => LET hoster == tasks[h].hoster
             IN tasks[h].hoster_branch =
                   IF hoster.outcome = "hoster" /\ hoster.listing = "ok"
                   THEN FirstProposed(hoster.proposed)
                   ELSE "None"

\* C33: in a 201 assignment resume is non-null only if a resume branch was
\* found (the hoster's, or the cache's when the item is not a forced refresh)
\* and the run table holds a success run of the item's suite at the head of
\* that branch whose review status is not rejected, and resume names that
\* branch and that run; for a forced refresh resume is null; and cached_url
\* is computed from the cache whatever resume is, also when resume is null
\* because the run was rejected.
C33_ResumeOnlyIfApproved ==
    [][\A h \in Handlers :
          (tasks[h].pc = "a_check" /\ response'.kind = "assign"
           /\ response'.status = 201 /\ tasks'[h].pc = "idle")
             => LET t == tasks[h]
                    r == response'.resume
                IN /\ r # NoResume
                         => /\ t.resume_branch # "None"
                            /\ r.branch = t.resume_branch
                            /\ t.resume_branch = "cache" => ~t.item.refresh
                            /\ \E k \in DOMAIN runs :
                                  /\ runs[k].id = r.result
                                  /\ runs[k].suite = t.item.suite
                                  /\ runs[k].result_code = "success"
                                  /\ runs[k].revision = r.head
                                  /\ runs[k].review_status # "rejected"
                   /\ t.item.refresh => r = NoResume
                   /\ response'.cached_url = CachedBranchUrl(t.vcs_type)]_vars

\* An assignment without resume, because the success run at the head of the
\* resume branch the cache holds was rejected, that still names the cached
\* URL.
C33_Witness ==
    /\ response.kind = "assign"
    /\ response.status = 201
    /\ response.resume = NoResume
    /\ response.resume_branch = "cache"
    /\ ~response.refresh
    /\ response.cached_url # "None"
    /\ \E k \in DOMAIN runs :
          /\ runs[k].result_code = "success"
          /\ runs[k].review_status = "rejected"
    /\ \A k \in DOMAIN runs :
          runs[k].result_code = "success" => runs[k].review_status = "rejected"

\* C34: a log upload for a known run appends every chunk it receives, in
\* order, to the buffer of its file, refreshes last_keepalive with each
\* chunk, and publishes the queue status exactly when the chunk is the first
\* of a file name not seen before; for an unknown run id it answers 404 and
\* changes nothing.
C34_UploadLog ==
    [][\A h \in Handlers :
          /\ (tasks[h].pc = "u_chunk" /\ tasks[h].body # <<>>
              /\ tasks'[h] # tasks[h])
                => LET t == tasks[h]
                       before == runobj[t.run_id].log_files[t.logname]
                       after == runobj'[t.run_id].log_files[t.logname]
                   IN /\ after.present
                      /\ after.data = Append(before.data, Head(t.body))
                      /\ \A name \in LogNames \ {t.logname} :
                            runobj'[t.run_id].log_files[name] =
                               runobj[t.run_id].log_files[name]
                      /\ tasks'[h].published =
                            t.published + (IF before.present THEN 0 ELSE 1)
                      /\ runobj'[t.run_id].last_keepalive = now
          /\ (tasks[h].kind = "idle" /\ response'.kind = "upload-log"
              /\ response'.status = 404)
                => /\ response'.run_id \notin active_runs
                   /\ runobj' = runobj
                   /\ tasks' = tasks
                   /\ active_runs' = active_runs]_vars

\* C35: whenever no request handler is in the middle of executing, every run
\* in the registry has a running watchdog task.
C35_RegisteredRunsAreWatched ==
    (\A h \in Handlers : tasks[h].pc = "idle")
       => \A id \in active_runs : runobj[id].watch_dog = "sleeping"

\* C36: once finish_run has committed the delete of a queue row, the run of
\* that item leaves the registry whatever the rest of finish_run does: when
\* no handler is in the middle of executing, every run in the registry
\* references a queue row that exists.
C36_ActiveRunsHaveQueueRows ==
    (\A h \in Handlers : tasks[h].pc = "idle")
       => \A id \in active_runs : QueueRowExists(runobj[id].queue_item.id)

\* C37: after every completed operation the gauge active_runs equals the
\* number of entries of the registry.
C37_GaugeCountsRegistry ==
    (\A h \in Handlers : tasks[h].pc = "idle")
       => active_run_count = Cardinality(active_runs)

\* C38: when two publish_from_policy calls for the same package, branch
\* name, revision and mode interleave at their suspension points, the publish
\* subprocess is invoked at most once and at most one publish row is stored
\* for the tuple: no two calls in flight have both gone on to publish_one,
\* and no two rows of the publish table name the same tuple.
C38_ConcurrentPublishOnce ==
    /\ Cardinality({p \in Publishers : ptasks[p].invoked}) <= 1
    /\ \A i, j \in DOMAIN publish :
          (/\ publish[i].package = publish[j].package
           /\ publish[i].branch_name = publish[j].branch_name
           /\ publish[i].revision = publish[j].revision
           /\ publish[i].mode = publish[j].mode
           /\ publish[i].branch_name # "None") => i = j

\* C39: no code path of the publisher opens a new merge proposal for a
\* maintainer the rate limiter would deny.  For the reconciler: a step of
\* check_existing in which publish_one, called in mode propose, opened a new
\* proposal for a known maintainer is taken only in a state where
\* check_allowed does not raise RateLimited.
C39_NoProposalWhenDenied ==
    [][(/\ AtUpdate
        /\ proposals[reconciler.i].maintainer
        /\ Len(publish') = Len(publish) + 1
        /\ publish'[Len(publish')].code = "success"
        /\ reconciler'.pc = "crashed")
          => CheckAllowed(rate_limiter) # "RateLimited"]_vars

\* C40: with dry_run set, a step of finish_run (followup_run included) leaves
\* the run table and the queue table unchanged, and the step of finish_run
\* that passes the skipped transaction publishes the result event and removes
\* the run from the registry.
C40_DryRunFrame ==
    [][dry_run =>
         \A h \in Handlers :
            /\ (tasks[h].pc \in {"fr_call", "fr_followup"} /\ tasks'[h] # tasks[h])
                  => (runs' = runs /\ queue' = queue)
            /\ (tasks[h].pc = "fr_call" /\ tasks'[h] # tasks[h])
                  => /\ \E e \in topic_result' : e.log_id = tasks[h].result.log_id
                     /\ tasks[h].result.log_id \notin active_runs']_vars

====
